---------------------------- MODULE Spec2Model ----------------------------
(***************************************************************************)
(* Domain vetting and IP warm-up: the risk decision engine (blacklist      *)
(* classification, weighted scoring) and the warm-up schedule generator    *)
(* of package vetting, as a state machine over calls of its functions.     *)
(*                                                                         *)
(* Go strings are TLA+ strings (Len, \o and SubSeq act on them), Go ints   *)
(* are integers wrapped to a machine width, Go float64 values are IEEE-754 *)
(* doubles computed limb by limb (section "float64").                      *)
(***************************************************************************)
EXTENDS Integers, Sequences, FiniteSets, TLC

VARIABLES
    op,     \* the function being called
    args,   \* its arguments
    pc,     \* "call": about to run, "return": has returned
    ret     \* its result once pc = "return"

vars == <<op, args, pc, ret>>

-----------------------------------------------------------------------------
(* Machine integers.  Go's int is 64 bits wide; the model keeps the same   *)
(* two's-complement wrap-around at a narrower width.                       *)

IntBits == 16

RECURSIVE Pow2(_)
Pow2(n) == IF n = 0 THEN 1 ELSE 2 * Pow2(n - 1)

MaxInt == Pow2(IntBits - 1) - 1
MinInt == 0 - Pow2(IntBits - 1)

\* The value an int holds after an arithmetic result x.
GoInt(x) == ((x + Pow2(IntBits - 1)) % Pow2(IntBits)) - Pow2(IntBits - 1)

-----------------------------------------------------------------------------
(* Strings: package strings and fmt.                                       *)

UpperCase == "ABCDEFGHIJKLMNOPQRSTUVWXYZ"
LowerCase == "abcdefghijklmnopqrstuvwxyz"
Digits == "0123456789"

CharAt(s, i) == SubSeq(s, i, i)

\* unicode.ToLower on one ASCII character
ToLowerChar(c) ==
    IF \E i \in 1..Len(UpperCase) : CharAt(UpperCase, i) = c
    THEN CharAt(LowerCase, CHOOSE i \in 1..Len(UpperCase) : CharAt(UpperCase, i) = c)
    ELSE c

RECURSIVE ToLower(_)
ToLower(s) ==
    IF Len(s) = 0 THEN ""
    ELSE ToLowerChar(CharAt(s, 1)) \o ToLower(SubSeq(s, 2, Len(s)))

\* strings.Contains
Contains(s, substr) ==
    \E i \in 1..(Len(s) - Len(substr) + 1) :
        SubSeq(s, i, i + Len(substr) - 1) = substr

\* strings.HasPrefix
HasPrefix(s, prefix) ==
    Len(s) >= Len(prefix) /\ SubSeq(s, 1, Len(prefix)) = prefix

\* strings.Join
RECURSIVE Join(_, _)
Join(elems, sep) ==
    IF Len(elems) = 0 THEN ""
    ELSE IF Len(elems) = 1 THEN elems[1]
    ELSE elems[1] \o sep \o Join(Tail(elems), sep)

\* fmt's %d of a non-negative int
RECURSIVE FormatNat(_)
FormatNat(n) ==
    IF n < 10 THEN CharAt(Digits, n + 1)
    ELSE FormatNat(n \div 10) \o CharAt(Digits, (n % 10) + 1)

\* fmt's %d
FormatInt(n) == IF n < 0 THEN "-" \o FormatNat(0 - n) ELSE FormatNat(n)

-----------------------------------------------------------------------------
(* blacklist_config.go                                                     *)

CriticalBlacklists ==
    <<"spamhaus", "ivmurl", "invaluement", "surbl", "abusix", "abuse.ch", "abuseat">>

BlacklistPenalties ==
    ("spamcop" :> 10) @@ ("vadesecure" :> 30) @@
    ("barracuda" :> 10) @@ ("barracudacentral" :> 10)

UCEProtectLevelPenalties == (1 :> 5) @@ (2 :> 10) @@ (3 :> 20)

\* The default penalty of a listing no table names.
DefaultBlacklistPenalty == 10

isCriticalBlacklist(source) ==
    \E i \in 1..Len(CriticalBlacklists) : Contains(source, CriticalBlacklists[i])

\* getUCEProtectLevel with level 2 tested before level 3.
getUCEProtectLevelTwoFirst(source) ==
    IF Contains(source, "dnsbl-2") \/ Contains(source, "level2") \/ Contains(source, "l2")
    THEN 2
    ELSE IF Contains(source, "dnsbl-3") \/ Contains(source, "level3") \/ Contains(source, "l3")
    THEN 3
    ELSE 1

getUCEProtectLevel(source) ==
    IF Contains(source, "dnsbl-3") \/ Contains(source, "level3") \/ Contains(source, "l3")
    THEN 3
    ELSE IF Contains(source, "dnsbl-2") \/ Contains(source, "level2") \/ Contains(source, "l2")
    THEN 2
    ELSE 1

\* getBlacklistPenalty ranges over a Go map, whose iteration order is not
\* fixed: it returns the penalty of whichever matching name comes first.
\* The operator is the set of values a call may return.
getBlacklistPenalty(source) ==
    LET matching == {name \in DOMAIN BlacklistPenalties : Contains(source, name)}
    IN  IF matching = {} THEN {DefaultBlacklistPenalty}
        ELSE {BlacklistPenalties[name] : name \in matching}

EmptyBlacklistAnalysis ==
    [IsRejected |-> FALSE, RejectReason |-> "", CriticalHits |-> <<>>,
     TotalPenalty |-> 0, PenaltyDetails |-> <<>>]

\* AnalyzeEntry whose critical branch does not leave the iteration: the hit
\* goes on to the penalty path as well.
AnalyzeEntryNoContinue(result, entry) ==
    LET sourceLower == ToLower(entry.Source)
        r0 == IF isCriticalBlacklist(sourceLower)
              THEN [result EXCEPT !.IsRejected = TRUE,
                                  !.CriticalHits = Append(@, entry.Source)]
              ELSE result
    IN  IF ~entry.Listed THEN {result}
        ELSE IF Contains(sourceLower, "uceprotect")
        THEN LET level == getUCEProtectLevel(sourceLower)
                 penalty == UCEProtectLevelPenalties[level]
             IN  {[r0 EXCEPT
                     !.TotalPenalty = GoInt(@ + penalty),
                     !.PenaltyDetails = Append(@,
                         entry.Source \o " (Level " \o FormatInt(level)
                             \o ": -" \o FormatInt(penalty) \o ")")]}
        ELSE {[r0 EXCEPT
                 !.TotalPenalty = GoInt(@ + penalty),
                 !.PenaltyDetails = Append(@,
                     entry.Source \o " (-" \o FormatInt(penalty) \o ")")] :
              penalty \in getBlacklistPenalty(sourceLower)}

\* One iteration of the loop of AnalyzeBlacklists: the results it may leave.
AnalyzeEntry(result, entry) ==
    LET sourceLower == ToLower(entry.Source)
    IN  IF ~entry.Listed THEN {result}
        ELSE IF isCriticalBlacklist(sourceLower)
        THEN {[result EXCEPT !.IsRejected = TRUE,
                             !.CriticalHits = Append(@, entry.Source)]}
        ELSE IF Contains(sourceLower, "uceprotect")
        THEN LET level == getUCEProtectLevel(sourceLower)
                 penalty == UCEProtectLevelPenalties[level]
             IN  {[result EXCEPT
                     !.TotalPenalty = GoInt(@ + penalty),
                     !.PenaltyDetails = Append(@,
                         entry.Source \o " (Level " \o FormatInt(level)
                             \o ": -" \o FormatInt(penalty) \o ")")]}
        ELSE {[result EXCEPT
                 !.TotalPenalty = GoInt(@ + penalty),
                 !.PenaltyDetails = Append(@,
                     entry.Source \o " (-" \o FormatInt(penalty) \o ")")] :
              penalty \in getBlacklistPenalty(sourceLower)}

RECURSIVE AnalyzeLoop(_, _, _)
AnalyzeLoop(entries, i, results) ==
    IF i > Len(entries) THEN results
    ELSE AnalyzeLoop(entries, i + 1,
                     UNION {AnalyzeEntry(r, entries[i]) : r \in results})

\* SetRejectReason that names the first critical hit only.
SetRejectReasonFirstHit(result) ==
    IF result.IsRejected /\ Len(result.CriticalHits) > 0
    THEN [result EXCEPT !.RejectReason =
            "Domain is blacklisted on critical list(s): " \o result.CriticalHits[1]]
    ELSE result

\* The reject reason set after the loop.
SetRejectReason(result) ==
    IF result.IsRejected /\ Len(result.CriticalHits) > 0
    THEN [result EXCEPT !.RejectReason =
            "Domain is blacklisted on critical list(s): "
                \o Join(result.CriticalHits, ", ")]
    ELSE result

\* The analyses a call of AnalyzeBlacklists may return.
AnalyzeBlacklists(entries) ==
    {SetRejectReason(r) : r \in AnalyzeLoop(entries, 1, {EmptyBlacklistAnalysis})}

\* CheckMXReputationAllowed that takes an unknown reputation (0) as too low.
CheckMXReputationAllowedNoUnknown(mxRep) == mxRep >= 40

\* An MX reputation of 0 is unknown and allowed; any other must reach 40.
CheckMXReputationAllowed(mxRep) ==
    IF mxRep = 0 THEN TRUE ELSE mxRep >= 40

-----------------------------------------------------------------------------
(* scoring_config.go, scoring.go                                           *)

DefaultScoringThresholds == [HighRiskMax |-> 40, MediumMax |-> 70]

\* A PenaltyBreakdown with every field at Go's zero value.
ZeroPenaltyBreakdown ==
    [HTTPSMissing |-> 0, TLSExpiringSoon |-> 0, WebsiteNotExists |-> 0,
     DomainTooNew |-> 0, SenderScoreLow |-> 0, BlacklistPenalty |-> 0,
     BlacklistCount |-> 0, GoogleFlagged |-> 0, SpamhausHigh |-> 0,
     NoMXRecord |-> 0, NoSPF |-> 0, NoDMARC |-> 0, DMARCPolicyNone |-> 0,
     TrafficScoreLow |-> 0, TrafficScoreMedium |-> 0, TrustScoreLow |-> 0,
     TrustScoreMedium |-> 0, OptInNonCompliant |-> 0, NoCaptcha |-> 0,
     TotalPenalties |-> 0, FinalScore |-> 0, StartingScore |-> 0]

\* The penalty fields of a breakdown.
PenaltyFields ==
    {"HTTPSMissing", "TLSExpiringSoon", "WebsiteNotExists", "DomainTooNew",
     "SenderScoreLow", "BlacklistPenalty", "GoogleFlagged", "SpamhausHigh",
     "NoMXRecord", "NoSPF", "NoDMARC", "DMARCPolicyNone", "TrafficScoreLow",
     "TrafficScoreMedium", "TrustScoreLow", "TrustScoreMedium",
     "OptInNonCompliant", "NoCaptcha"}

AppendIf(seq, cond, s) == IF cond THEN Append(seq, s) ELSE seq

\* The weights of CalculateScoreV2.
weightDomainTooNew == 20
weightNoMXRecord == 60
weightNoDMARC == 20
weightDMARCPolicyNone == 10
weightNoCaptcha == 50

\* The reasons gathered on the rejected path of CalculateScoreV2.
V2RejectReasons(httpsOK, blacklistAnalysis, mxRepOk, googleFlagged, website) ==
    LET r1 == AppendIf(<<>>, blacklistAnalysis.IsRejected, blacklistAnalysis.RejectReason)
        r2 == AppendIf(r1, ~mxRepOk, "MX reputation too low")
        r3 == AppendIf(r2, ~website.Exists, "Website does not exist (CRITICAL)")
        r4 == AppendIf(r3, ~httpsOK, "HTTPS not enabled (CRITICAL)")
    IN  AppendIf(r4, googleFlagged, "Google Safe Browsing flagged (CRITICAL)")

\* V2RejectedSummary with the total penalties of the breakdown left unset.
V2RejectedSummaryNoTotal(rejectReasons) ==
    [Score |-> 0,
     Level |-> "rejected",
     Reason |-> "REJECTED: " \o Join(rejectReasons, "; "),
     Breakdown |-> [ZeroPenaltyBreakdown EXCEPT !.StartingScore = 100,
                                                !.FinalScore = 0]]

\* The RiskSummary of a rejected domain.
V2RejectedSummary(rejectReasons) ==
    [Score |-> 0,
     Level |-> "rejected",
     Reason |-> "REJECTED: " \o Join(rejectReasons, "; "),
     Breakdown |-> [ZeroPenaltyBreakdown EXCEPT !.StartingScore = 100,
                                                !.TotalPenalties = 100,
                                                !.FinalScore = 0]]

\* V2Penalties with the e-mail checks chained: DMARC is looked at only when
\* the MX record is valid.
V2PenaltiesChained(whoisDays, blacklistAnalysis, email, optIn) ==
    LET s0 == [score |-> 100,
               breakdown |-> [ZeroPenaltyBreakdown EXCEPT
                   !.StartingScore = 100,
                   !.BlacklistCount = Len(blacklistAnalysis.PenaltyDetails)]]
        s1 == IF whoisDays < 60
              THEN [score |-> GoInt(s0.score - weightDomainTooNew),
                    breakdown |-> [s0.breakdown EXCEPT !.DomainTooNew = weightDomainTooNew]]
              ELSE s0
        s2 == IF blacklistAnalysis.TotalPenalty > 0
              THEN [score |-> GoInt(s1.score - blacklistAnalysis.TotalPenalty),
                    breakdown |-> [s1.breakdown EXCEPT
                        !.BlacklistPenalty = blacklistAnalysis.TotalPenalty]]
              ELSE s1
        s3 == IF ~email.HasValidMX
              THEN [score |-> GoInt(s2.score - weightNoMXRecord),
                    breakdown |-> [s2.breakdown EXCEPT !.NoMXRecord = weightNoMXRecord]]
              ELSE s2
        s4 == IF ~email.HasValidMX THEN s3
              ELSE IF ~email.HasDMARC
              THEN [score |-> GoInt(s3.score - weightNoDMARC),
                    breakdown |-> [s3.breakdown EXCEPT !.NoDMARC = weightNoDMARC]]
              ELSE IF Contains(ToLower(email.DMARCRecord), "p=none")
              THEN [score |-> GoInt(s3.score - weightDMARCPolicyNone),
                    breakdown |-> [s3.breakdown EXCEPT
                        !.DMARCPolicyNone = weightDMARCPolicyNone]]
              ELSE s3
    IN  IF ~optIn.HasCaptcha
        THEN [score |-> GoInt(s4.score - weightNoCaptcha),
              breakdown |-> [s4.breakdown EXCEPT !.NoCaptcha = weightNoCaptcha]]
        ELSE s4

\* The penalties of CalculateScoreV2: the raw score and the breakdown after
\* the last penalty.
V2Penalties(whoisDays, blacklistAnalysis, email, optIn) ==
    LET s0 == [score |-> 100,
               breakdown |-> [ZeroPenaltyBreakdown EXCEPT
                   !.StartingScore = 100,
                   !.BlacklistCount = Len(blacklistAnalysis.PenaltyDetails)]]
        s1 == IF whoisDays < 60
              THEN [score |-> GoInt(s0.score - weightDomainTooNew),
                    breakdown |-> [s0.breakdown EXCEPT !.DomainTooNew = weightDomainTooNew]]
              ELSE s0
        s2 == IF blacklistAnalysis.TotalPenalty > 0
              THEN [score |-> GoInt(s1.score - blacklistAnalysis.TotalPenalty),
                    breakdown |-> [s1.breakdown EXCEPT
                        !.BlacklistPenalty = blacklistAnalysis.TotalPenalty]]
              ELSE s1
        s3 == IF ~email.HasValidMX
              THEN [score |-> GoInt(s2.score - weightNoMXRecord),
                    breakdown |-> [s2.breakdown EXCEPT !.NoMXRecord = weightNoMXRecord]]
              ELSE s2
        s4 == IF ~email.HasDMARC
              THEN [score |-> GoInt(s3.score - weightNoDMARC),
                    breakdown |-> [s3.breakdown EXCEPT !.NoDMARC = weightNoDMARC]]
              ELSE IF Contains(ToLower(email.DMARCRecord), "p=none")
              THEN [score |-> GoInt(s3.score - weightDMARCPolicyNone),
                    breakdown |-> [s3.breakdown EXCEPT
                        !.DMARCPolicyNone = weightDMARCPolicyNone]]
              ELSE s3
    IN  IF ~optIn.HasCaptcha
        THEN [score |-> GoInt(s4.score - weightNoCaptcha),
              breakdown |-> [s4.breakdown EXCEPT !.NoCaptcha = weightNoCaptcha]]
        ELSE s4

\* V2Clamp without the floor at 0: a negative score is returned as it is.
V2ClampNoFloor(st) ==
    LET b0 == [st.breakdown EXCEPT !.TotalPenalties = GoInt(100 - st.score)]
        s2 == IF st.score > 100
              THEN [score |-> 100, breakdown |-> [b0 EXCEPT !.TotalPenalties = 0]]
              ELSE [score |-> st.score, breakdown |-> b0]
    IN  [score |-> s2.score,
         breakdown |-> [s2.breakdown EXCEPT !.FinalScore = s2.score]]

\* V2Clamp that floors the score but leaves the total penalties as computed.
V2ClampKeepTotal(st) ==
    LET b0 == [st.breakdown EXCEPT !.TotalPenalties = GoInt(100 - st.score)]
        s1 == IF st.score < 0
              THEN [score |-> 0, breakdown |-> b0]
              ELSE [score |-> st.score, breakdown |-> b0]
        s2 == IF s1.score > 100
              THEN [score |-> 100, breakdown |-> [s1.breakdown EXCEPT !.TotalPenalties = 0]]
              ELSE s1
    IN  [score |-> s2.score,
         breakdown |-> [s2.breakdown EXCEPT !.FinalScore = s2.score]]

\* Total penalties, the clamp of the score to 0..100 and the final score.
V2Clamp(st) ==
    LET b0 == [st.breakdown EXCEPT !.TotalPenalties = GoInt(100 - st.score)]
        s1 == IF st.score < 0
              THEN [score |-> 0, breakdown |-> [b0 EXCEPT !.TotalPenalties = 100]]
              ELSE [score |-> st.score, breakdown |-> b0]
        s2 == IF s1.score > 100
              THEN [score |-> 100, breakdown |-> [s1.breakdown EXCEPT !.TotalPenalties = 0]]
              ELSE s1
    IN  [score |-> s2.score,
         breakdown |-> [s2.breakdown EXCEPT !.FinalScore = s2.score]]

\* V2Level with the two thresholds exclusive.
V2LevelExclusive(score, thresholds, optIn) ==
    LET level == IF score < thresholds.HighRiskMax THEN "high-risk"
                 ELSE IF score < thresholds.MediumMax THEN "medium"
                 ELSE "good"
    IN  IF ~optIn.Compliance THEN "high-risk" ELSE level

\* V2Level without the opt-in override.
V2LevelNoOverride(score, thresholds, optIn) ==
    IF score <= thresholds.HighRiskMax THEN "high-risk"
    ELSE IF score <= thresholds.MediumMax THEN "medium"
    ELSE "good"

\* The level of a score, and the opt-in override.
V2Level(score, thresholds, optIn) ==
    LET level == IF score <= thresholds.HighRiskMax THEN "high-risk"
                 ELSE IF score <= thresholds.MediumMax THEN "medium"
                 ELSE "good"
    IN  IF ~optIn.Compliance THEN "high-risk" ELSE level

buildReasonV2(score, level, breakdown, blAnalysis) ==
    LET details == Join(blAnalysis.PenaltyDetails, ", ")
        r1  == AppendIf(<<>>, breakdown.HTTPSMissing > 0, "missing HTTPS (-20)")
        r2  == AppendIf(r1, breakdown.DomainTooNew > 0, "new domain (-20)")
        r3  == AppendIf(r2, breakdown.BlacklistPenalty > 0,
                   IF details # ""
                   THEN "blacklist penalties: " \o details
                   ELSE "blacklist penalty (-" \o FormatInt(breakdown.BlacklistPenalty) \o ")")
        r4  == AppendIf(r3, breakdown.OptInNonCompliant > 0, "opt-in non-compliant (-25)")
        r5  == AppendIf(r4, breakdown.GoogleFlagged > 0, "flagged by Google Safe Browsing (-30)")
        r6  == AppendIf(r5, breakdown.NoSPF > 0, "no SPF record (-10)")
        r7  == AppendIf(r6, breakdown.NoDMARC > 0, "no DMARC record (-10)")
        r8  == AppendIf(r7, breakdown.NoMXRecord > 0, "no MX record (-10)")
        r9  == AppendIf(r8, breakdown.TLSExpiringSoon > 0, "TLS expiring soon (-10)")
        r10 == AppendIf(r9, breakdown.SpamhausHigh > 0, "high Spamhaus score (-20)")
        r11 == AppendIf(r10, breakdown.WebsiteNotExists > 0, "website not accessible (-15)")
        r12 == AppendIf(r11, breakdown.TrafficScoreLow > 0, "low traffic score (-10)")
        r13 == AppendIf(r12, breakdown.TrustScoreLow > 0, "low trust score (-15)")
        reasons == AppendIf(r13, breakdown.NoCaptcha > 0, "no CAPTCHA (-5)")
    IN  IF Len(reasons) = 0 THEN "All checks passed"
        ELSE "Score: " \o FormatInt(score) \o ", Level: " \o level
                 \o ". Issues: " \o Join(reasons, ", ")

CalculateScoreV2(httpsOK, tlsDays, whoisDays, blacklistAnalysis, mxRepOk, googleFlagged, email, ssl, optIn, website, isRejected) ==
    IF isRejected
    THEN V2RejectedSummary(
             V2RejectReasons(httpsOK, blacklistAnalysis, mxRepOk, googleFlagged, website))
    ELSE LET st == V2Clamp(V2Penalties(whoisDays, blacklistAnalysis, email, optIn))
             level == V2Level(st.score, DefaultScoringThresholds, optIn)
         IN  [Score |-> st.score,
              Level |-> level,
              Reason |-> buildReasonV2(st.score, level, st.breakdown, blacklistAnalysis),
              Breakdown |-> st.breakdown]

\* The weights of the legacy CalculateScoreWithWeights.
LegacyWeights ==
    [HTTPSMissing |-> 20, TLSExpiringSoon |-> 10, WebsiteNotExists |-> 15,
     DomainTooNew |-> 20, SenderScoreLow |-> 10, BlacklistPerHit |-> 10,
     GoogleFlagged |-> 30, SpamhausHigh |-> 20, NoMXRecord |-> 10,
     NoSPF |-> 10, NoDMARC |-> 10, TrafficScoreLow |-> 10,
     TrafficScoreMed |-> 5, TrustScoreLow |-> 15, TrustScoreMed |-> 8,
     OptInNonCompliant |-> 25, NoCaptcha |-> 5]

\* One penalty of the legacy scorer: subtract it and record it in field f.
LegacyApply(st, cond, f, penalty) ==
    IF cond
    THEN [score |-> GoInt(st.score - penalty),
          breakdown |-> [st.breakdown EXCEPT ![f] = penalty]]
    ELSE st

\* The penalties of CalculateScoreWithWeights: the raw score and the
\* breakdown after the last penalty.
LegacyPenalties(httpsOK, tlsDays, whoisDays, blacklistCount, mxRep, googleFlagged, email, spam, optIn, website) ==
    LET w   == LegacyWeights
        s0  == [score |-> 100,
                breakdown |-> [ZeroPenaltyBreakdown EXCEPT
                    !.StartingScore = 100, !.BlacklistCount = blacklistCount]]
        s1  == LegacyApply(s0, ~httpsOK, "HTTPSMissing", w.HTTPSMissing)
        s2  == LegacyApply(s1, tlsDays < 30, "TLSExpiringSoon", w.TLSExpiringSoon)
        s3  == LegacyApply(s2, whoisDays < 60, "DomainTooNew", w.DomainTooNew)
        s4  == LegacyApply(s3, mxRep < 60, "SenderScoreLow", w.SenderScoreLow)
        s5  == LegacyApply(s4, blacklistCount > 0, "BlacklistPenalty",
                           GoInt(blacklistCount * w.BlacklistPerHit))
        s6  == LegacyApply(s5, googleFlagged, "GoogleFlagged", w.GoogleFlagged)
        s7  == LegacyApply(s6, ~email.HasValidMX, "NoMXRecord", w.NoMXRecord)
        s8  == LegacyApply(s7, ~email.HasSPF, "NoSPF", w.NoSPF)
        s9  == LegacyApply(s8, ~email.HasDMARC, "NoDMARC", w.NoDMARC)
        s10 == LegacyApply(s9, spam.Score > 30, "SpamhausHigh", w.SpamhausHigh)
        s11 == LegacyApply(s10, ~website.Exists, "WebsiteNotExists", w.WebsiteNotExists)
        s12 == IF website.TrafficScore < 5
               THEN LegacyApply(s11, TRUE, "TrafficScoreLow", w.TrafficScoreLow)
               ELSE LegacyApply(s11, website.TrafficScore < 7,
                                "TrafficScoreMedium", w.TrafficScoreMed)
        s13 == IF website.TrustScore < 5
               THEN LegacyApply(s12, TRUE, "TrustScoreLow", w.TrustScoreLow)
               ELSE LegacyApply(s12, website.TrustScore < 7,
                                "TrustScoreMedium", w.TrustScoreMed)
        s14 == LegacyApply(s13, ~optIn.Compliance, "OptInNonCompliant", w.OptInNonCompliant)
    IN  LegacyApply(s14, ~optIn.HasCaptcha, "NoCaptcha", w.NoCaptcha)

\* Total penalties, the clamp of the score to 0..100 and the final score
\* (legacy scorer).
LegacyClamp(st) ==
    LET b0 == [st.breakdown EXCEPT !.TotalPenalties = GoInt(100 - st.score)]
        s1 == IF st.score < 0
              THEN [score |-> 0, breakdown |-> [b0 EXCEPT !.TotalPenalties = 100]]
              ELSE [score |-> st.score, breakdown |-> b0]
        s2 == IF s1.score > 100
              THEN [score |-> 100, breakdown |-> [s1.breakdown EXCEPT !.TotalPenalties = 0]]
              ELSE s1
    IN  [score |-> s2.score,
         breakdown |-> [s2.breakdown EXCEPT !.FinalScore = s2.score]]

\* The level of a score, and the opt-in override (legacy scorer).
LegacyLevel(score, thresholds, optIn) ==
    LET level == IF score <= thresholds.HighRiskMax THEN "high-risk"
                 ELSE IF score <= thresholds.MediumMax THEN "medium"
                 ELSE "good"
    IN  IF ~optIn.Compliance THEN "high-risk" ELSE level

buildReason(score, level, breakdown) ==
    LET r1 == AppendIf(<<>>, breakdown.HTTPSMissing > 0, "missing HTTPS")
        r2 == AppendIf(r1, breakdown.DomainTooNew > 0, "new domain")
        r3 == AppendIf(r2, breakdown.BlacklistCount > 0,
                       FormatInt(breakdown.BlacklistCount) \o " blacklist hits")
        r4 == AppendIf(r3, breakdown.OptInNonCompliant > 0, "opt-in non-compliant")
        r5 == AppendIf(r4, breakdown.GoogleFlagged > 0, "flagged by Google Safe Browsing")
        r6 == AppendIf(r5, breakdown.NoSPF > 0, "no SPF record")
        r7 == AppendIf(r6, breakdown.NoDMARC > 0, "no DMARC record")
        reasons == AppendIf(r7, breakdown.NoMXRecord > 0, "no MX record")
    IN  IF Len(reasons) = 0 THEN "All checks passed"
        ELSE "Score: " \o FormatInt(score) \o ", Level: " \o level
                 \o ". Issues: " \o Join(reasons, ", ")

CalculateScoreWithWeights(httpsOK, tlsDays, whoisDays, blacklistCount, mxRep, googleFlagged, email, ssl, spam, optIn, website) ==
    LET st == LegacyClamp(LegacyPenalties(httpsOK, tlsDays, whoisDays, blacklistCount,
                              mxRep, googleFlagged, email, spam, optIn, website))
        level == LegacyLevel(st.score, DefaultScoringThresholds, optIn)
    IN  [Score |-> st.score,
         Level |-> level,
         Reason |-> buildReason(st.score, level, st.breakdown),
         Breakdown |-> st.breakdown]

\* CalculateScore, the legacy entry point.
CalculateScore(httpsOK, tlsDays, whoisDays, blacklistCount, mxRep, googleFlagged, email, ssl, spam, optIn, website) ==
    CalculateScoreWithWeights(httpsOK, tlsDays, whoisDays, blacklistCount, mxRep,
                              googleFlagged, email, ssl, spam, optIn, website)

-----------------------------------------------------------------------------
(* Calls of the scorers: the arguments a caller may pass.                  *)

Bools == {TRUE, FALSE}

NoResult == <<>>

BlacklistEntry(source, listed) ==
    [Source |-> source, Listed |-> listed, Info |-> "", Reason |-> ""]

\* WHOIS ages on both sides of the 60-day limit, and the -1 of a failed lookup.
WhoisAges == {0 - 1, 59, 60}

\* DMARC lookups: no record, an enforcing record, a monitor-only record.
DMARCSamples ==
    {[HasDMARC |-> FALSE, DMARCRecord |-> ""],
     [HasDMARC |-> TRUE, DMARCRecord |-> "v=DMARC1; p=reject"],
     [HasDMARC |-> TRUE, DMARCRecord |-> "v=DMARC1; P=None; pct=100"]}

EmailSamples ==
    {[HasValidMX |-> mx, HasSPF |-> spf, HasDMARC |-> d.HasDMARC,
      SPFRecord |-> "", DMARCRecord |-> d.DMARCRecord] :
        mx \in Bools, spf \in Bools, d \in DMARCSamples}

OptInSamples ==
    {[Compliance |-> c, HasCaptcha |-> h, CaptchaWarning |-> ""] :
        c \in Bools, h \in Bools}

SSLSample ==
    [ValidUntil |-> "", SelfSigned |-> FALSE, Protocol |-> "", Cipher |-> "", Score |-> 0]

\* Blacklist analyses handed to the scorer: those AnalyzeBlacklists returns
\* for a few entry lists, and analyses built by a caller with a total penalty
\* beyond the score budget, up to the largest int.
AnalysisSamples ==
    AnalyzeBlacklists(<<>>)
    \cup AnalyzeBlacklists(<<BlacklistEntry("zen.spamhaus.org", TRUE)>>)
    \cup AnalyzeBlacklists(<<BlacklistEntry("dnsbl-3.uceprotect.net", TRUE),
                             BlacklistEntry("bl.spamcop.net", TRUE)>>)
    \cup {[EmptyBlacklistAnalysis EXCEPT !.TotalPenalty = 150],
          [EmptyBlacklistAnalysis EXCEPT !.TotalPenalty = MaxInt]}

ScoreV2Args ==
    [httpsOK : Bools, tlsDays : {90}, whoisDays : WhoisAges,
     blacklistAnalysis : AnalysisSamples, mxRepOk : Bools, googleFlagged : Bools,
     email : EmailSamples, ssl : {SSLSample}, optIn : OptInSamples,
     website : {[Exists |-> e, HTTPSOk |-> e, TrafficScore |-> 0, TrustScore |-> 0] :
                    e \in Bools},
     isRejected : Bools]

LegacyWebsites ==
    {[Exists |-> TRUE, HTTPSOk |-> TRUE, TrafficScore |-> 7, TrustScore |-> 7],
     [Exists |-> TRUE, HTTPSOk |-> TRUE, TrafficScore |-> 6, TrustScore |-> 4],
     [Exists |-> FALSE, HTTPSOk |-> FALSE, TrafficScore |-> 4, TrustScore |-> 6]}

LegacyArgs ==
    [httpsOK : Bools, tlsDays : {29, 30}, whoisDays : WhoisAges,
     blacklistCount : {0, 1, 12, MaxInt}, mxRep : {59, 60}, googleFlagged : Bools,
     email : {e \in EmailSamples : e.DMARCRecord # "v=DMARC1; p=reject"},
     ssl : {SSLSample}, spam : {[Score |-> 30], [Score |-> 31]},
     optIn : OptInSamples, website : LegacyWebsites]

CalculateScoreV2Call ==
    /\ pc = "call" /\ op = "CalculateScoreV2"
    /\ ret' = CalculateScoreV2(args.httpsOK, args.tlsDays, args.whoisDays,
                  args.blacklistAnalysis, args.mxRepOk, args.googleFlagged,
                  args.email, args.ssl, args.optIn, args.website, args.isRejected)
    /\ pc' = "return"
    /\ UNCHANGED <<op, args>>

CalculateScoreWithWeightsCall ==
    /\ pc = "call" /\ op = "CalculateScoreWithWeights"
    /\ ret' = CalculateScore(args.httpsOK, args.tlsDays, args.whoisDays,
                  args.blacklistCount, args.mxRep, args.googleFlagged,
                  args.email, args.ssl, args.spam, args.optIn, args.website)
    /\ pc' = "return"
    /\ UNCHANGED <<op, args>>

InitScoring ==
    /\ pc = "call" /\ ret = NoResult
    /\ \/ op = "CalculateScoreV2" /\ args \in ScoreV2Args
       \/ op = "CalculateScoreWithWeights" /\ args \in LegacyArgs

NextScoring == CalculateScoreV2Call \/ CalculateScoreWithWeightsCall

SpecScoring == InitScoring /\ [][NextScoring]_vars

-----------------------------------------------------------------------------
(* Properties of the scorers.                                              *)

ReturnedV2 == pc = "return" /\ op = "CalculateScoreV2"
ReturnedLegacy == pc = "return" /\ op = "CalculateScoreWithWeights"

\* The score of a returned CalculateScoreV2 call before the clamp.
RawScoreV2 ==
    V2Penalties(args.whoisDays, args.blacklistAnalysis, args.email, args.optIn).score

Clamp(x, lo, hi) == IF x < lo THEN lo ELSE IF x > hi THEN hi ELSE x

\* C1: for every combination of inputs, with a total penalty or a blacklist
\* count >= 0, the score and the final score of the breakdown returned by
\* CalculateScoreV2 and by the legacy CalculateScoreWithWeights lie in 0..100.
C1_ScoreInRange ==
    (ReturnedV2 \/ ReturnedLegacy) =>
        /\ ret.Score \in 0..100
        /\ ret.Breakdown.FinalScore \in 0..100

\* A CalculateScoreV2 call whose penalties exceed the budget of 100 returned.
C1_Witness ==
    /\ ReturnedV2 /\ ~args.isRejected
    /\ args.blacklistAnalysis.TotalPenalty >= 0
    /\ RawScoreV2 < 0
    /\ ret.Score = 0

\* C2: a call of CalculateScoreV2 with isRejected returns a complete
\* RiskSummary with score 0, level "rejected", a reason that starts with
\* "REJECTED: ", starting score 100, total penalties 100, final score 0, and
\* no penalty field set, whatever the other inputs are.
C2_RejectedSummary ==
    (ReturnedV2 /\ args.isRejected) =>
        /\ DOMAIN ret = {"Score", "Level", "Reason", "Breakdown"}
        /\ ret.Score = 0
        /\ ret.Level = "rejected"
        /\ HasPrefix(ret.Reason, "REJECTED: ")
        /\ ret.Breakdown.StartingScore = 100
        /\ ret.Breakdown.TotalPenalties = 100
        /\ ret.Breakdown.FinalScore = 0
        /\ \A f \in PenaltyFields : ret.Breakdown[f] = 0

\* A rejected call returned whose other inputs would each have been penalised.
C2_Witness ==
    /\ ReturnedV2 /\ args.isRejected
    /\ args.whoisDays < 60
    /\ args.blacklistAnalysis.TotalPenalty > 0
    /\ ~args.email.HasValidMX /\ ~args.email.HasDMARC
    /\ ~args.optIn.HasCaptcha
    /\ ret.Level = "rejected"

\* C9: every RiskSummary returned by CalculateScoreV2 has starting score 100
\* and final score = score = clamp(100 - total penalties, 0, 100); total
\* penalties + final score = 100 when the raw score was not clamped, and
\* the total penalties are 100 when the raw score was negative.
C9_BreakdownTotals ==
    ReturnedV2 =>
        /\ ret.Breakdown.StartingScore = 100
        /\ ret.Breakdown.FinalScore = ret.Score
        /\ ret.Score = Clamp(100 - ret.Breakdown.TotalPenalties, 0, 100)
        /\ (~args.isRejected /\ RawScoreV2 \in 0..100) =>
               ret.Breakdown.TotalPenalties + ret.Breakdown.FinalScore = 100
        /\ (~args.isRejected /\ RawScoreV2 < 0) =>
               ret.Breakdown.TotalPenalties = 100

\* A non-rejected call returned whose raw score was negative.
C9_Witness ==
    /\ ReturnedV2 /\ ~args.isRejected
    /\ RawScoreV2 < 0
    /\ ret.Breakdown.TotalPenalties = 100
    /\ ret.Breakdown.FinalScore = 0

\* The RiskSummary of the same call with opt-in compliance true.
CompliantSummary ==
    CalculateScoreV2(args.httpsOK, args.tlsDays, args.whoisDays,
        args.blacklistAnalysis, args.mxRepOk, args.googleFlagged, args.email,
        args.ssl, [args.optIn EXCEPT !.Compliance = TRUE], args.website,
        args.isRejected)

\* C10 as stated: in every evaluation with opt-in compliance false the level
\* is "high-risk" and the score is the one computed from the penalties.
C10_Original ==
    (ReturnedV2 /\ ~args.optIn.Compliance) =>
        /\ ret.Level = "high-risk"
        /\ ret.Score = CompliantSummary.Score

\* C10 amended: in every evaluation that is not rejected and has opt-in
\* compliance false the level is "high-risk" whatever the score, and the score
\* and the breakdown are those of the same evaluation with compliance true;
\* a rejected evaluation has level "rejected" whatever the compliance.
C10_OptInOverride ==
    (ReturnedV2 /\ ~args.optIn.Compliance) =>
        /\ ~args.isRejected =>
               /\ ret.Level = "high-risk"
               /\ ret.Score = CompliantSummary.Score
               /\ ret.Breakdown = CompliantSummary.Breakdown
        /\ args.isRejected => ret.Level = "rejected"

\* A non-compliant call returned with a score that alone would be "good".
C10_Witness ==
    /\ ReturnedV2 /\ ~args.isRejected /\ ~args.optIn.Compliance
    /\ ret.Score > DefaultScoringThresholds.MediumMax
    /\ CompliantSummary.Level = "good"
    /\ ret.Level = "high-risk"

\* C14: for a non-rejected evaluation with opt-in compliance true the level is
\* "high-risk" if and only if score <= 40, "medium" if and only if
\* 41 <= score <= 70 and "good" if and only if score >= 71; the level
\* "rejected" is produced if and only if isRejected is true.
C14_LevelThresholds ==
    ReturnedV2 =>
        /\ ret.Level = "rejected" <=> args.isRejected
        /\ (~args.isRejected /\ args.optIn.Compliance) =>
               /\ ret.Level = "high-risk" <=> ret.Score <= 40
               /\ ret.Level = "medium" <=> ret.Score \in 41..70
               /\ ret.Level = "good" <=> ret.Score >= 71

\* A compliant evaluation returned with a score on the upper edge of
\* "medium" (a UCEProtect level 3 and a SpamCop listing, nothing else).
C14_Witness ==
    /\ ReturnedV2 /\ ~args.isRejected /\ args.optIn.Compliance
    /\ ret.Score = 70
    /\ ret.Level = "medium"

\* The sum of the penalties CalculateScoreV2 recorded in a breakdown.
AppliedPenalties(b) ==
    b.DomainTooNew + b.BlacklistPenalty + b.NoMXRecord + b.NoDMARC
        + b.DMARCPolicyNone + b.NoCaptcha

C20_ReasonNamesPenalties ==
    (ReturnedV2 /\ ~args.isRejected) =>
        LET b == ret.Breakdown
            applied == {f \in PenaltyFields : b[f] # 0}
            label == [f \in {"DomainTooNew", "BlacklistPenalty", "NoMXRecord",
                             "NoDMARC", "DMARCPolicyNone", "NoCaptcha"} |->
                         CASE f = "DomainTooNew" -> "new domain"
                           [] f = "BlacklistPenalty" -> "blacklist penalt"
                           [] f = "NoMXRecord" -> "no MX record"
                           [] f = "NoDMARC" -> "no DMARC record"
                           [] f = "DMARCPolicyNone" -> "DMARC"
                           [] f = "NoCaptcha" -> "no CAPTCHA"]
        IN  /\ applied \subseteq DOMAIN label
            /\ \A f \in applied : Contains(ret.Reason, label[f])
            /\ ret.Reason = "All checks passed" <=> applied = {}
            /\ applied = {} =>
                   ret.Score = 100 /\ ret.Level = (IF args.optIn.Compliance
                                                    THEN "good" ELSE "high-risk")

-----------------------------------------------------------------------------
(* Calls of AnalyzeBlacklists.                                             *)

\* The longest entry list analysed.
MaxEntries == 2

\* Sources as the blacklist lookups name them: critical lists, the three
\* UCEProtect levels, named lists, an unknown list, a source that names a
\* critical and a tiered list, one that names two entries of the penalty
\* table, and one that names a table entry and two UCEProtect levels.
BlacklistSources ==
    {"zen.spamhaus.org", "MULTI.SURBL.ORG", "dnsbl-1.uceprotect.net",
     "dnsbl-2.uceprotect.net", "UCEPROTECTL3", "b.barracudacentral.org",
     "dnsbl.sorbs.net", "uceprotect-abuseat", "spamcop+vadesecure",
     "VadeSecure-UCEProtect-level2-l3"}

BlacklistEntries == {BlacklistEntry(s, l) : s \in BlacklistSources, l \in Bools}

EntryLists == UNION {[1..n -> BlacklistEntries] : n \in 0..MaxEntries}

AnalyzeBlacklistsCall ==
    /\ pc = "call" /\ op = "AnalyzeBlacklists"
    /\ \E r \in AnalyzeBlacklists(args.entries) : ret' = r
    /\ pc' = "return"
    /\ UNCHANGED <<op, args>>

InitBlacklist ==
    /\ pc = "call" /\ ret = NoResult
    /\ op = "AnalyzeBlacklists"
    /\ \E es \in EntryLists : args = [entries |-> es]

NextBlacklist == AnalyzeBlacklistsCall

SpecBlacklist == InitBlacklist /\ [][NextBlacklist]_vars

-----------------------------------------------------------------------------
(* Properties of AnalyzeBlacklists.                                        *)

ReturnedAnalysis == pc = "return" /\ op = "AnalyzeBlacklists"

\* A listed entry whose source matches the critical set.
CriticalHit(e) == e.Listed /\ isCriticalBlacklist(ToLower(e.Source))

\* The entries of a list that are not critical hits, in order.
WithoutCriticalHits(entries) == SelectSeq(entries, LAMBDA e : ~CriticalHit(e))

\* C8: AnalyzeBlacklists sets isRejected exactly when a listed entry's source
\* matches the critical set; a critical hit is recorded in criticalHits only:
\* the total penalty and the penalty details are those of the list without
\* its critical hits, so a list of critical hits alone has total penalty 0.
C8_CriticalNoPenalty ==
    ReturnedAnalysis =>
        LET entries == args.entries
            hits == SelectSeq(entries, CriticalHit)
        IN  /\ ret.IsRejected <=> (\E i \in 1..Len(entries) : CriticalHit(entries[i]))
            /\ ret.CriticalHits = [i \in 1..Len(hits) |-> hits[i].Source]
            /\ \E r \in AnalyzeBlacklists(WithoutCriticalHits(entries)) :
                   /\ r.TotalPenalty = ret.TotalPenalty
                   /\ r.PenaltyDetails = ret.PenaltyDetails
            /\ Len(ret.PenaltyDetails) =
                   Cardinality({i \in 1..Len(entries) :
                       entries[i].Listed /\ ~CriticalHit(entries[i])})
            /\ (\A i \in 1..Len(entries) : entries[i].Listed => CriticalHit(entries[i]))
                   => ret.TotalPenalty = 0 /\ ret.PenaltyDetails = <<>>

\* A single listed critical hit, which also names a tiered list, was analysed.
C8_Witness ==
    /\ ReturnedAnalysis
    /\ Len(args.entries) = 1
    /\ args.entries[1] = BlacklistEntry("uceprotect-abuseat", TRUE)
    /\ ret.IsRejected /\ ret.TotalPenalty = 0

\* The penalty details the rule order allows for a listed entry that is not a
\* critical hit: the tiered list first, then the named table, then the
\* default.
RuleDetails(e) ==
    LET src == ToLower(e.Source)
        named == {n \in DOMAIN BlacklistPenalties : Contains(src, n)}
    IN  IF Contains(src, "uceprotect")
        THEN IF Contains(src, "dnsbl-3") \/ Contains(src, "level3") \/ Contains(src, "l3")
             THEN {<<20, e.Source \o " (Level 3: -20)">>}
             ELSE IF Contains(src, "dnsbl-2") \/ Contains(src, "level2")
                     \/ Contains(src, "l2")
             THEN {<<10, e.Source \o " (Level 2: -10)">>}
             ELSE {<<5, e.Source \o " (Level 1: -5)">>}
        ELSE IF named # {}
        THEN {<<BlacklistPenalties[n],
                e.Source \o " (-" \o FormatInt(BlacklistPenalties[n]) \o ")">> :
                 n \in named}
        ELSE {<<10, e.Source \o " (-10)">>}

\* C16: for each listed entry AnalyzeBlacklists applies the first matching
\* rule, on the lower-cased source by substring: the critical set (no
\* penalty), then the tiered UCEProtect list (level 3 tested before level 2,
\* level 1 by default, penalties 5/10/20), then the named penalty table, then
\* the default penalty 10; a source that matches a critical pattern and a
\* tiered or named pattern is classified critical.
C16_RuleOrder ==
    ReturnedAnalysis =>
        LET entries == args.entries
            critical == SelectSeq(entries, CriticalHit)
            penalised == SelectSeq(entries, LAMBDA e : e.Listed /\ ~CriticalHit(e))
        IN  /\ ret.CriticalHits = [i \in 1..Len(critical) |-> critical[i].Source]
            /\ Len(ret.PenaltyDetails) = Len(penalised)
            /\ \A k \in 1..Len(penalised) :
                   \E d \in RuleDetails(penalised[k]) : ret.PenaltyDetails[k] = d[2]
            /\ Len(penalised) = 1 =>
                   \E d \in RuleDetails(penalised[1]) :
                       /\ ret.TotalPenalty = d[1]
                       /\ ret.PenaltyDetails = <<d[2]>>

\* A listed source that names a table entry (30) and UCEProtect levels 2 and 3
\* was analysed: the tiered rule and level 3 won.
C16_Witness ==
    /\ ReturnedAnalysis
    /\ args.entries = <<BlacklistEntry("VadeSecure-UCEProtect-level2-l3", TRUE)>>
    /\ ret.TotalPenalty = 20
    /\ ret.PenaltyDetails = <<"VadeSecure-UCEProtect-level2-l3 (Level 3: -20)">>
    /\ ~ret.IsRejected

\* The totals that agree with the penalty details from entry k on: the sum
\* of the penalties of the rules that wrote them.
RECURSIVE DetailTotals(_, _, _)
DetailTotals(penalised, details, k) ==
    IF k > Len(penalised) THEN {0}
    ELSE {d[1] + t : d \in {x \in RuleDetails(penalised[k]) : x[2] = details[k]},
                     t \in DetailTotals(penalised, details, k + 1)}

\* C17: for any entry list, entries with listed = false change nothing; every
\* listed entry appears in exactly one of criticalHits and penaltyDetails, so
\* that their lengths add up to the number of listed entries; both lists keep
\* the input order; totalPenalty is the sum of the penalties of the
\* non-critical hits; and rejectReason is non-empty exactly when criticalHits
\* is non-empty, and then names every critical source.
C17_ListedPartition ==
    ReturnedAnalysis =>
        LET entries == args.entries
            listed == SelectSeq(entries, LAMBDA e : e.Listed)
            critical == SelectSeq(entries, CriticalHit)
            penalised == SelectSeq(entries, LAMBDA e : e.Listed /\ ~CriticalHit(e))
        IN  /\ ret \in AnalyzeBlacklists(listed)
            /\ Len(ret.CriticalHits) + Len(ret.PenaltyDetails) = Len(listed)
            /\ ret.CriticalHits = [i \in 1..Len(critical) |-> critical[i].Source]
            /\ Len(ret.PenaltyDetails) = Len(penalised)
            /\ \A k \in 1..Len(penalised) :
                   HasPrefix(ret.PenaltyDetails[k], penalised[k].Source \o " (")
            /\ ret.TotalPenalty \in DetailTotals(penalised, ret.PenaltyDetails, 1)
            /\ ret.RejectReason # "" <=> Len(ret.CriticalHits) > 0
            /\ \A i \in 1..Len(ret.CriticalHits) :
                   Contains(ret.RejectReason, ret.CriticalHits[i])

\* Two critical hits were analysed: both are named in the reject reason.
C17_Witness ==
    /\ ReturnedAnalysis
    /\ args.entries = <<BlacklistEntry("MULTI.SURBL.ORG", TRUE),
                        BlacklistEntry("zen.spamhaus.org", TRUE)>>
    /\ ret.RejectReason =
           "Domain is blacklisted on critical list(s): MULTI.SURBL.ORG, zen.spamhaus.org"
    /\ ret.TotalPenalty = 0

\* C18: AnalyzeBlacklists is deterministic: for the same entry list every call
\* returns the same totalPenalty and penaltyDetails, whatever order the named
\* penalty table is iterated in, also for a source that contains the names of
\* two table entries with different penalties.
C18_Deterministic ==
    ReturnedAnalysis =>
        \A r \in AnalyzeBlacklists(args.entries) :
            /\ r.TotalPenalty = ret.TotalPenalty
            /\ r.PenaltyDetails = ret.PenaltyDetails

-----------------------------------------------------------------------------
(* handlers.go: the rejection gate of VetHandler.  The lookups the handler *)
(* makes over the network are its inputs here: the merged blacklist        *)
(* entries, the MX reputation (0 when MXToolbox gave no result), whether   *)
(* a plain fetch of the site succeeded, the HTTPS probe, the Safe Browsing *)
(* verdict with its reason, the WHOIS age, the e-mail records and the      *)
(* CAPTCHA detection.                                                      *)

joinReasons(reasons) == Join(reasons, "; ")

\* CheckWebsite without the fallback to the HTTPS probe.
CheckWebsiteNoFallback(siteExists, hasHTTPS) ==
    [Exists |-> siteExists, HTTPSOk |-> hasHTTPS]

\* website.go CheckWebsite: the site exists if the fetch succeeded or, failing
\* that, if HTTPS answered.  The traffic and trust scores of the WebsiteCheck
\* are read neither by the gate nor by CalculateScoreV2 and are left out.
CheckWebsite(siteExists, hasHTTPS) ==
    [Exists |-> IF ~siteExists THEN hasHTTPS ELSE siteExists,
     HTTPSOk |-> hasHTTPS]

\* optin.go EvaluateOptIn: compliance is always true, the CAPTCHA is detected.
EvaluateOptIn(hasCaptcha) ==
    [Compliance |-> TRUE,
     HasCaptcha |-> hasCaptcha,
     CaptchaWarning |->
         IF ~hasCaptcha
         THEN "WARNING: No CAPTCHA detected on the website. Domain may be exposed to bots, spam, and automated attacks. Consider implementing reCAPTCHA, hCaptcha, or Cloudflare Turnstile."
         ELSE ""]

\* The gate that stops at the website check when it fails.
VetRejectReasonsShortCircuit(blacklistAnalysis, mxRepOk, website, httpsOK, googleFlagged, googleReason) ==
    LET r1 == AppendIf(<<>>, blacklistAnalysis.IsRejected, blacklistAnalysis.RejectReason)
        r2 == AppendIf(r1, ~mxRepOk, "MX reputation too low (below 40)")
        r3 == AppendIf(r2, ~website.Exists, "Website does not exist or is not accessible")
        r4 == AppendIf(r3, website.Exists /\ ~httpsOK, "HTTPS is not enabled on the domain")
    IN  AppendIf(r4, website.Exists /\ googleFlagged,
            "Google Safe Browsing flagged this domain as unsafe: " \o googleReason)

\* Checks 1 to 5 of VetHandler: the reasons collected, in order.
VetRejectReasons(blacklistAnalysis, mxRepOk, website, httpsOK, googleFlagged, googleReason) ==
    LET r1 == AppendIf(<<>>, blacklistAnalysis.IsRejected, blacklistAnalysis.RejectReason)
        r2 == AppendIf(r1, ~mxRepOk, "MX reputation too low (below 40)")
        r3 == AppendIf(r2, ~website.Exists, "Website does not exist or is not accessible")
        r4 == AppendIf(r3, ~httpsOK, "HTTPS is not enabled on the domain")
    IN  AppendIf(r4, googleFlagged,
            "Google Safe Browsing flagged this domain as unsafe: " \o googleReason)

\* The responses VetHandler may encode, one for each result AnalyzeBlacklists
\* may return.  isRejected is set by each check that appends a reason.
VetHandler(blacklistCombined, mxRep, siteExists, httpsOK, googleFlagged, googleReason, tlsDays, whoisDays, emailSec, ssl, hasCaptcha) ==
    {LET mxRepOk == CheckMXReputationAllowed(mxRep)
         website == CheckWebsite(siteExists, httpsOK)
         rejectReasons == VetRejectReasons(blacklistAnalysis, mxRepOk, website,
                              httpsOK, googleFlagged, googleReason)
         isRejected == \/ blacklistAnalysis.IsRejected
                       \/ ~mxRepOk
                       \/ ~website.Exists
                       \/ ~httpsOK
                       \/ googleFlagged
         optIn == EvaluateOptIn(hasCaptcha)
         rejectReason == IF Len(rejectReasons) > 0
                         THEN "REJECTED: " \o joinReasons(rejectReasons)
                         ELSE ""
     IN  [IsRejected |-> isRejected,
          RejectReason |-> rejectReason,
          BlacklistHits |-> blacklistCombined,
          BlacklistAnalysis |-> blacklistAnalysis,
          MxReputationOk |-> mxRepOk,
          GoogleSafeBrowsing |-> googleFlagged,
          GoogleSafeBrowsingReason |-> googleReason,
          Website |-> website,
          OptIn |-> optIn,
          Summary |-> CalculateScoreV2(httpsOK, tlsDays, whoisDays, blacklistAnalysis,
                          mxRepOk, googleFlagged, emailSec, ssl, optIn,
                          website, isRejected)] :
        blacklistAnalysis \in AnalyzeBlacklists(blacklistCombined)}

-----------------------------------------------------------------------------
(* Requests served by VetHandler: what the lookups may answer.             *)

\* Merged blacklist results: none, an unlisted critical list, a penalty
\* list, one critical hit, a critical hit after a penalty hit, two critical
\* hits.
VetBlacklists ==
    {<<>>,
     <<BlacklistEntry("zen.spamhaus.org", FALSE)>>,
     <<BlacklistEntry("bl.spamcop.net", TRUE)>>,
     <<BlacklistEntry("zen.spamhaus.org", TRUE)>>,
     <<BlacklistEntry("dnsbl-2.uceprotect.net", TRUE),
       BlacklistEntry("MULTI.SURBL.ORG", TRUE)>>,
     <<BlacklistEntry("zen.spamhaus.org", TRUE),
       BlacklistEntry("combined.abuse.ch", TRUE)>>}

\* What the lookups of one request may answer.  MX reputations: a negative
\* one, unknown (0), and both sides of the limit of 40.
VetArgs ==
    [blacklistCombined : VetBlacklists, mxRep : {0 - 5, 0, 1, 39, 40, 95},
     siteExists : Bools, httpsOK : Bools,
     google : {[flagged |-> FALSE, reason |-> ""],
               [flagged |-> TRUE, reason |-> "MALWARE"]},
     tlsDays : {90}, whoisDays : {59, 60},
     emailSec : {e \in EmailSamples : e.HasSPF /\ e.HasValidMX},
     ssl : {SSLSample}, hasCaptcha : Bools]

VetHandlerCall ==
    /\ pc = "call" /\ op = "VetHandler"
    /\ \E resp \in VetHandler(args.blacklistCombined, args.mxRep, args.siteExists,
                       args.httpsOK, args.google.flagged, args.google.reason,
                       args.tlsDays, args.whoisDays, args.emailSec, args.ssl,
                       args.hasCaptcha) :
           ret' = resp
    /\ pc' = "return"
    /\ UNCHANGED <<op, args>>

InitVet ==
    /\ pc = "call" /\ ret = NoResult
    /\ op = "VetHandler"
    /\ args \in VetArgs

NextVet == VetHandlerCall

SpecVet == InitVet /\ [][NextVet]_vars

-----------------------------------------------------------------------------
(* Properties of the rejection gate.                                       *)

ReturnedVet == pc = "return" /\ op = "VetHandler"

\* The five gate conditions that failed in a returned VetHandler call, as
\* <<blacklist, MX reputation, website, HTTPS, safety flag>>.
FailedChecks ==
    <<\E i \in 1..Len(args.blacklistCombined) : CriticalHit(args.blacklistCombined[i]),
      args.mxRep # 0 /\ args.mxRep < 40,
      ~ret.Website.Exists,
      ~args.httpsOK,
      args.google.flagged>>

\* C11: in the vetting flow the domain is rejected exactly when at least one
\* of the five gate conditions fails: the blacklist analysis is rejected, the
\* MX reputation is non-zero and below 40 (0 is unknown and passes), the
\* website does not exist, HTTPS is not enabled, or the safety database
\* flagged the domain; when none fails the domain is not rejected and is
\* scored.
C11_GateRejects ==
    ReturnedVet =>
        /\ ret.BlacklistAnalysis.IsRejected <=> FailedChecks[1]
        /\ ret.IsRejected <=> (\E k \in 1..5 : FailedChecks[k])
        /\ ret.IsRejected =>
               /\ ret.Summary.Level = "rejected"
               /\ ret.Summary.Score = 0
        /\ ~ret.IsRejected =>
               /\ ret.RejectReason = ""
               /\ ret.Summary.Level \in {"good", "medium", "high-risk"}
               /\ ret.Summary.Score + ret.Summary.Breakdown.TotalPenalties = 100
               /\ ~HasPrefix(ret.Summary.Reason, "REJECTED: ")

\* A domain with unknown MX reputation (0) and nothing else wrong was vetted
\* and scored.
C11_Witness ==
    /\ ReturnedVet
    /\ args.mxRep = 0
    /\ \A k \in 1..5 : ~FailedChecks[k]
    /\ ~ret.IsRejected
    /\ ret.Summary.Score > 0

\* The texts of the failed checks, in the order of the checks.
FailedReasons(texts) ==
    LET failed == SelectSeq(<<1, 2, 3, 4, 5>>, LAMBDA k : FailedChecks[k])
    IN  [i \in 1..Len(failed) |-> texts[failed[i]]]

\* C12: the gate does not short-circuit: each failing condition contributes
\* exactly one reason and each passing condition none, in the order blacklist,
\* MX reputation, website, HTTPS, safety flag, joined with "; " after the
\* prefix "REJECTED: "; the RejectReason of the response and the reason of
\* the RiskSummary list the same failing conditions.
C12_NoShortCircuit ==
    (ReturnedVet /\ ret.IsRejected) =>
        /\ FailedChecks[1] => ret.BlacklistAnalysis.RejectReason # ""
        /\ ret.RejectReason =
               "REJECTED: " \o Join(FailedReasons(
                   <<ret.BlacklistAnalysis.RejectReason,
                     "MX reputation too low (below 40)",
                     "Website does not exist or is not accessible",
                     "HTTPS is not enabled on the domain",
                     "Google Safe Browsing flagged this domain as unsafe: "
                         \o args.google.reason>>), "; ")
        /\ ret.Summary.Reason =
               "REJECTED: " \o Join(FailedReasons(
                   <<ret.BlacklistAnalysis.RejectReason,
                     "MX reputation too low",
                     "Website does not exist (CRITICAL)",
                     "HTTPS not enabled (CRITICAL)",
                     "Google Safe Browsing flagged (CRITICAL)">>), "; ")

\* A domain that fails all five checks was vetted: five reasons in each text.
C12_Witness ==
    /\ ReturnedVet
    /\ \A k \in 1..5 : FailedChecks[k]
    /\ ret.RejectReason =
           "REJECTED: Domain is blacklisted on critical list(s): zen.spamhaus.org; MX reputation too low (below 40); Website does not exist or is not accessible; HTTPS is not enabled on the domain; Google Safe Browsing flagged this domain as unsafe: MALWARE"
    /\ ret.Summary.Reason =
           "REJECTED: Domain is blacklisted on critical list(s): zen.spamhaus.org; MX reputation too low; Website does not exist (CRITICAL); HTTPS not enabled (CRITICAL); Google Safe Browsing flagged (CRITICAL)"

-----------------------------------------------------------------------------
(* float64.  A double is [s, e, m]: sign s (0 or 1), exponent e and         *)
(* mantissa m, of value (-1)^s * m * 2^e, with m a natural number of        *)
(* exactly MantissaBits bits, or 0.  Naturals beyond TLC's integers are     *)
(* little-endian sequences of limbs below Limb.  Each operation rounds its  *)
(* exact result to the nearest double, ties to even, as the amd64 build     *)
(* does (no fused multiply-add); the values of this program stay far from   *)
(* overflow, underflow, infinities and NaN.                                 *)
(*                                                                          *)
(* TLC hands an operator its arguments unevaluated and may evaluate one     *)
(* again at each use.  The(S) over a singleton set built from {x \in {e}}   *)
(* evaluates e once and binds x to its value.                               *)

The(S) == CHOOSE r \in S : TRUE

MantissaBits == 53
LimbBits == 14
Limb == 16384

Max(a, b) == IF a >= b THEN a ELSE b
Min(a, b) == IF a <= b THEN a ELSE b

LimbAt(a, i) == IF i >= 1 /\ i <= Len(a) THEN a[i] ELSE 0

Zeros(n) == [i \in 1..n |-> 0]

RECURSIVE TopLimb(_, _)
TopLimb(a, n) == IF n > 0 /\ a[n] = 0 THEN TopLimb(a, n - 1) ELSE n

\* a without its leading zero limbs
BigNorm(a) == The({SubSeq(x, 1, TopLimb(x, Len(x))) : x \in {a}})

RECURSIVE BigFromNat(_)
BigFromNat(n) == IF n = 0 THEN <<>> ELSE <<n % Limb>> \o BigFromNat(n \div Limb)

RECURSIVE BigToNatFrom(_, _)
BigToNatFrom(a, i) == IF i > Len(a) THEN 0 ELSE a[i] + Limb * BigToNatFrom(a, i + 1)

BigToNat(a) == The({BigToNatFrom(x, 1) : x \in {a}})

RECURSIVE BigCmpFrom(_, _, _)
BigCmpFrom(a, b, i) ==
    IF i = 0 THEN 0
    ELSE IF LimbAt(a, i) > LimbAt(b, i) THEN 1
    ELSE IF LimbAt(a, i) < LimbAt(b, i) THEN 0 - 1
    ELSE BigCmpFrom(a, b, i - 1)

\* -1, 0 or 1 as a < b, a = b or a > b
BigCmp(a, b) == The({BigCmpFrom(x, y, Max(Len(x), Len(y))) : x \in {a}, y \in {b}})

RECURSIVE BigAddFrom(_, _, _, _)
BigAddFrom(a, b, i, carry) ==
    IF i > Len(a) /\ i > Len(b)
    THEN IF carry = 0 THEN <<>> ELSE <<carry>>
    ELSE The({<<t % Limb>> \o BigAddFrom(a, b, i + 1, t \div Limb) :
                 t \in {LimbAt(a, i) + LimbAt(b, i) + carry}})

BigAdd(a, b) == The({BigAddFrom(x, y, 1, 0) : x \in {a}, y \in {b}})

RECURSIVE BigSubFrom(_, _, _, _)
BigSubFrom(a, b, i, borrow) ==
    IF i > Len(a) THEN <<>>
    ELSE The({IF t < 0 THEN <<t + Limb>> \o BigSubFrom(a, b, i + 1, 1)
              ELSE <<t>> \o BigSubFrom(a, b, i + 1, 0) :
                 t \in {a[i] - LimbAt(b, i) - borrow}})

\* a - b for a >= b
BigSub(a, b) == BigNorm(The({BigSubFrom(x, y, 1, 0) : x \in {a}, y \in {b}}))

RECURSIVE BigMulSmallFrom(_, _, _, _)
BigMulSmallFrom(a, d, i, carry) ==
    IF i > Len(a)
    THEN IF carry = 0 THEN <<>> ELSE <<carry>>
    ELSE The({<<t % Limb>> \o BigMulSmallFrom(a, d, i + 1, t \div Limb) :
                 t \in {a[i] * d + carry}})

\* a * d for a limb d
BigMulSmall(a, d) == The({BigMulSmallFrom(x, y, 1, 0) : x \in {a}, y \in {d}})

RECURSIVE BigMulFrom(_, _, _)
BigMulFrom(a, b, j) ==
    IF j > Len(b) THEN <<>>
    ELSE BigAdd(Zeros(j - 1) \o BigMulSmall(a, b[j]), BigMulFrom(a, b, j + 1))

BigMul(a, b) == BigNorm(The({BigMulFrom(x, y, 1) : x \in {a}, y \in {b}}))

\* a * 2^k
BigShlBy(a, k) ==
    IF Len(a) = 0 THEN <<>>
    ELSE Zeros(k \div LimbBits) \o BigMulSmall(a, Pow2(k % LimbBits))

BigShl(a, k) == The({BigShlBy(x, y) : x \in {a}, y \in {k}})

\* a \div 2^k, from q whole limbs and the divisor d = 2^(k % LimbBits)
BigShrBy(a, q, d) ==
    BigNorm([i \in 1..(Len(a) - q) |->
                (a[i + q] \div d) + (((LimbAt(a, i + q + 1) % d) * (Limb \div d)) % Limb)])

BigShr(a, k) ==
    The({BigShrBy(x, y \div LimbBits, Pow2(y % LimbBits)) : x \in {a}, y \in {k}})

\* bit k of a, bit 0 the lowest
BigBit(a, k) == (LimbAt(a, (k \div LimbBits) + 1) \div Pow2(k % LimbBits)) % 2

\* whether the k lowest bits of a are all 0
BigLowBitsZero(a, k) ==
    /\ \A i \in 1..Min(k \div LimbBits, Len(a)) : a[i] = 0
    /\ LimbAt(a, (k \div LimbBits) + 1) % Pow2(k % LimbBits) = 0

RECURSIVE BitLenNat(_)
BitLenNat(n) == IF n = 0 THEN 0 ELSE 1 + BitLenNat(n \div 2)

\* the number of bits of a (a without leading zero limbs)
BigBitLen(a) ==
    IF Len(a) = 0 THEN 0 ELSE LimbBits * (Len(a) - 1) + BitLenNat(a[Len(a)])

\* a + 1 for an even a
BigSetLowBit(a) == IF Len(a) = 0 THEN <<1>> ELSE [a EXCEPT ![1] = @ + 1]

FZero == [s |-> 0, e |-> 0, m |-> <<>>]

IsZero(x) == Len(x.m) = 0

\* M \div 2^k rounded to nearest, ties to even, for k > 0
RoundShift(M, k) ==
    The({IF BigBit(M, k - 1) = 1 /\ (~BigLowBitsZero(M, k - 1) \/ BigBit(q, 0) = 1)
         THEN BigAdd(q, <<1>>)
         ELSE q : q \in {BigShr(M, k)}})

\* The double nearest to (-1)^s * M * 2^E for M of n bits.
FRoundBits(s, M, E, n) ==
    IF n = 0 THEN FZero
    ELSE IF n <= MantissaBits
    THEN [s |-> s, e |-> E - (MantissaBits - n), m |-> BigShl(M, MantissaBits - n)]
    ELSE The({IF BigBitLen(r) > MantissaBits
              THEN [s |-> s, e |-> E + (n - MantissaBits) + 1, m |-> BigShr(r, 1)]
              ELSE [s |-> s, e |-> E + (n - MantissaBits), m |-> r] :
                 r \in {RoundShift(M, n - MantissaBits)}})

\* The double nearest to (-1)^s * M * 2^E, ties to even.
FRound(s, M, E) ==
    The({FRoundBits(sv, Mv, Ev, BigBitLen(Mv)) : sv \in {s}, Mv \in {M}, Ev \in {E}})

\* float64(n) for an int n
FromInt(n) == FRound(IF n < 0 THEN 1 ELSE 0, BigFromNat(IF n < 0 THEN 0 - n ELSE n), 0)

FNeg(x) == The({IF IsZero(a) THEN a ELSE [a EXCEPT !.s = 1 - @] : a \in {x}})

\* x * y
FMul(x, y) ==
    The({IF IsZero(a) \/ IsZero(b) THEN FZero
         ELSE FRound((a.s + b.s) % 2, BigMul(a.m, b.m), a.e + b.e) :
            a \in {x}, b \in {y}})

\* One step of the long division by D: the next quotient bit enters q.
DivStep(st, D) ==
    IF BigCmp(st.r, D) >= 0
    THEN [q |-> BigSetLowBit(BigMulSmall(st.q, 2)), r |-> BigMulSmall(BigSub(st.r, D), 2)]
    ELSE [q |-> BigMulSmall(st.q, 2), r |-> BigMulSmall(st.r, 2)]

\* t steps of the long division, the first half of them before the second
RECURSIVE DivSteps(_, _, _)
DivSteps(st, D, t) ==
    IF t = 0 THEN st
    ELSE IF t = 1 THEN The({DivStep(v, D) : v \in {st}})
    ELSE The({The({DivSteps(first, D, t - h) : first \in {DivSteps(st, D, h)}}) :
                 h \in {t \div 2}})

\* the limbs i down to 1 of a divided by a limb d, after remainder rem
RECURSIVE DivSmallFrom(_, _, _, _)
DivSmallFrom(a, d, i, rem) ==
    IF i = 0 THEN [q |-> <<>>, r |-> BigFromNat(rem)]
    ELSE The({The({[q |-> Append(rest.q, t \div d), r |-> rest.r] :
                      rest \in {DivSmallFrom(a, d, i - 1, t % d)}}) :
                 t \in {rem * Limb + a[i]}})

\* quotient and remainder of a by a limb d
BigDivSmall(a, d) ==
    The({[q |-> BigNorm(qr.q), r |-> qr.r] : qr \in {DivSmallFrom(a, d, Len(a), 0)}})

RECURSIVE TrailingZerosNat(_)
TrailingZerosNat(n) == IF n % 2 = 1 THEN 0 ELSE 1 + TrailingZerosNat(n \div 2)

RECURSIVE LowLimb(_, _)
LowLimb(a, i) == IF a[i] = 0 THEN LowLimb(a, i + 1) ELSE i

\* the number of zero bits below the lowest 1 of a, for a # 0
BigTrailingZeros(a) ==
    The({LimbBits * (i - 1) + TrailingZerosNat(a[i]) : i \in {LowLimb(a, 1)}})

\* the quotient's mantissa: the bits of the division and a sticky bit
DivMantissa(qr) ==
    IF Len(qr.r) = 0 THEN BigMulSmall(qr.q, 2) ELSE BigSetLowBit(BigMulSmall(qr.q, 2))

\* a / b for mantissas of MantissaBits bits, b with z trailing zeros: when
\* b without them is a single limb d, the short division of a * 2^k by d
\* with k = LimbBits + 3; otherwise MantissaBits + 4 steps of the long
\* division.  Either gives MantissaBits + 3 quotient bits or more and a
\* sticky bit, which FRound rounds.
FDivMantissas(s, a, b, E, z) ==
    IF MantissaBits - z <= LimbBits
    THEN FRound(s, DivMantissa(BigDivSmall(BigShl(a, LimbBits + 3), BigShr(b, z)[1])),
                E - z - (LimbBits + 3) - 1)
    ELSE The({FRound(s, DivMantissa(qr), E - (MantissaBits + 4)) :
                 qr \in {DivSteps([q |-> <<>>, r |-> a], b, MantissaBits + 4)}})

\* x / y for y # 0
FDiv(x, y) ==
    The({IF IsZero(a) THEN FZero
         ELSE The({FDivMantissas((a.s + b.s) % 2, a.m, b.m, a.e - b.e, z) :
                      z \in {BigTrailingZeros(b.m)}}) :
            a \in {x}, b \in {y}})

\* X * 2^e + Y * 2^e for signs sx, sy
AddAligned(sx, X, sy, Y, e) ==
    IF sx = sy THEN FRound(sx, BigAdd(X, Y), e)
    ELSE The({IF c = 0 THEN FZero
              ELSE IF c > 0 THEN FRound(sx, BigSub(X, Y), e)
              ELSE FRound(sy, BigSub(Y, X), e) : c \in {BigCmp(X, Y)}})

\* x + y
FAdd(x, y) ==
    The({IF IsZero(a) THEN b
         ELSE IF IsZero(b) THEN a
         ELSE IF a.e - b.e > MantissaBits + 3 THEN a
         ELSE IF b.e - a.e > MantissaBits + 3 THEN b
         ELSE The({AddAligned(a.s, X, b.s, Y, Min(a.e, b.e)) :
                      X \in {BigShl(a.m, a.e - Min(a.e, b.e))},
                      Y \in {BigShl(b.m, b.e - Min(a.e, b.e))}}) :
            a \in {x}, b \in {y}})

\* x - y
FSub(x, y) == FAdd(x, FNeg(y))

\* x < y
FLess(x, y) == The({~IsZero(d) /\ d.s = 1 : d \in {FSub(x, y)}})

\* x > 0
FPositive(x) == The({~IsZero(a) /\ a.s = 0 : a \in {x}})

\* int(math.Floor(x)) for x >= 0
FloorToInt(x) ==
    The({IF IsZero(a) THEN 0
         ELSE IF a.e >= 0 THEN BigToNat(BigShl(a.m, a.e))
         ELSE BigToNat(BigShr(a.m, 0 - a.e)) : a \in {x}})

\* A decimal literal n/d of the source, as the compiler converts it.
Lit(n, d) == FDiv(FromInt(n), FromInt(d))

\* excelRound: half rounds up, anything not positive is 0
excelRound(v) ==
    The({IF ~FPositive(a) THEN 0 ELSE FloorToInt(FAdd(a, Lit(1, 2))) : a \in {v}})

-----------------------------------------------------------------------------
(* warmup.go *)

WarmupDay(day, limit) == [Day |-> day, Limit |-> limit]

maxDays == 60

\* The tables of GenerateWarmupPlans hold float64 literals.  Here a table is
\* a sequence of pairs <<n, d>>, and the entry read from it is the double
\* nearest to n/d, which is the literal's value.
Tenths(t) == [i \in 1..Len(t) |-> <<t[i], 10>>]

Entry(table, i) == Lit(table[i][1], table[i][2])

multipliers30 ==
    <<<<1, 7>>, <<1, 6>>, <<1, 5>>, <<1, 4>>, <<1, 3>>, <<1, 2>>,
      <<8, 10>>, <<5, 6>>, <<1, 1>>>> \o
    Tenths(<<12, 14, 18, 22, 24, 28, 32, 35, 40, 45, 50,
             60, 70, 80, 90, 110, 130, 150, 200, 250, 300,
             400, 500, 600, 700, 800, 900, 1000, 1100, 1300, 1500>>)

lessThan30Divisors ==
    <<<<7, 1>>, <<6, 1>>, <<5, 1>>, <<4, 1>>, <<3, 1>>, <<2, 1>>,
      <<15, 10>>, <<12, 10>>>>

lessThan30Mults ==
    Tenths(<<12, 14, 18, 22, 24, 28, 32, 35, 40, 45, 50,
             60, 70, 80, 90, 110, 130, 150, 200, 250, 300,
             400, 500, 600, 700, 800, 900, 1000, 1100, 1300, 1500,
             300, 330, 350, 400, 450, 500, 550, 600, 650, 700,
             750, 800, 850, 900, 950, 1000, 1050, 1100, 1150, 1200>>)

greaterThan30Mults ==
    Tenths(<<12, 14, 16, 18, 20, 22, 24, 26, 28, 30,
             35, 40, 45, 50, 60, 70, 80, 90, 100, 110, 120,
             130, 140, 150, 160, 170, 180, 200, 220, 250, 280,
             300, 330, 350, 400, 450, 500, 550, 600, 650, 700,
             750, 800, 850, 900, 950, 1000, 1050, 1100, 1150, 1200>>)

\* lessThan30 without the case of day 9, which then falls before the table
lessThan30NoDayNine(mc, f, d) ==
    IF d >= 1 /\ d <= 8 THEN FMul(FDiv(mc, Entry(lessThan30Divisors, d)), f)
    ELSE IF d - 10 < 0 \/ d - 10 >= Len(lessThan30Mults) THEN FZero
    ELSE The({FMul(FMul(FMul(mc, m), f), m) : m \in {Entry(lessThan30Mults, d - 10 + 1)}})

\* the closure lessThan30 over medianCustom (mc) and factor (f)
lessThan30(mc, f, d) ==
    IF d >= 1 /\ d <= 8 THEN FMul(FDiv(mc, Entry(lessThan30Divisors, d)), f)
    ELSE IF d = 9 THEN FMul(mc, f)
    ELSE IF d - 10 < 0 \/ d - 10 >= Len(lessThan30Mults) THEN FZero
    ELSE The({FMul(FMul(FMul(mc, m), f), m) : m \in {Entry(lessThan30Mults, d - 10 + 1)}})

\* greaterThan30 without the first nine days of the accelerated column
greaterThan30NoEarlyDays(mc, f, d) ==
    IF d - 10 < 0 \/ d - 10 >= Len(greaterThan30Mults) THEN FZero
    ELSE The({FMul(FMul(mc, m), f) : m \in {Entry(greaterThan30Mults, d - 10 + 1)}})

\* the closure greaterThan30 over medianCustom (mc) and factor (f)
greaterThan30(mc, f, d) ==
    IF d <= 9 THEN lessThan30(mc, f, d)
    ELSE IF d - 10 < 0 \/ d - 10 >= Len(greaterThan30Mults) THEN FZero
    ELSE The({FMul(FMul(mc, m), f) : m \in {Entry(greaterThan30Mults, d - 10 + 1)}})

fibNumbers == <<144, 89, 55, 34, 21, 13, 8, 5, 3, 2>>

remaining == <<5, 3, 2>>

\* The sequence as float64 values, index 0 of the code at position 1.
generateFibonacciDecreasingSequence(days) ==
    LET repeated == Min(2 * Len(fibNumbers), Max(days - 15 - 1, 0))
        At(idx) ==
            IF idx = 0 THEN 0
            ELSE IF days = 45
            THEN IF idx <= repeated THEN fibNumbers[((idx - 1) % Len(fibNumbers)) + 1]
                 ELSE IF idx <= repeated + Len(remaining) THEN remaining[idx - repeated]
                 ELSE 1
            ELSE IF idx <= Len(fibNumbers) THEN fibNumbers[idx]
                 ELSE 1
    IN  [i \in 1..days |-> FromInt(At(i - 1))]

\* sum += fibSequence[i] for i in lo..hi, in the loop's order: the first
\* half of the range, then the second
RECURSIVE SumFrom(_, _, _, _)
SumFrom(fibSequence, lo, hi, sum) ==
    IF lo > hi THEN sum
    ELSE IF lo = hi THEN FAdd(sum, fibSequence[lo])
    ELSE The({The({SumFrom(fibSequence, mid + 1, hi, first) :
                      first \in {SumFrom(fibSequence, lo, mid, sum)}}) :
                 mid \in {(lo + hi) \div 2}})

\* fibSequence[i] = fibSequence[i] * scaleFactor from index 1 on
ScaleBy(fibSequence, scaleFactor) ==
    [i \in 1..Len(fibSequence) |-> IF i = 1 THEN fibSequence[i]
                                   ELSE FMul(fibSequence[i], scaleFactor)]

\* ScaledFibonacci without the 45-day normalisation
ScaledFibonacciUnscaled(fibSequence, initialTotalAdjuster, days) == fibSequence

\* the 45-day normalisation of the Fibonacci values
ScaledFibonacci(fibSequence, initialTotalAdjuster, days) ==
    IF days # 45 THEN fibSequence
    ELSE The({IF FPositive(sum) /\ FPositive(targetSum)
              THEN The({ScaleBy(fibSequence, scaleFactor) :
                           scaleFactor \in {FDiv(targetSum, sum)}})
              ELSE fibSequence :
                 sum \in {SumFrom(fibSequence, 2, days, FZero)},
                 targetSum \in {FSub(initialTotalAdjuster, FromInt(1))}})

\* sequence[i] = max(sequence[i-1] - fibSequence[i], 1)
AdjusterStep(sequence, fibValue) ==
    The({Append(sequence, IF FLess(newAdjuster, FromInt(1)) THEN FromInt(1)
                          ELSE newAdjuster) :
            newAdjuster \in {FSub(sequence[Len(sequence)], fibValue)}})

\* the loop over i in lo..hi: the first half of the range, then the second
RECURSIVE AdjusterFrom(_, _, _, _)
AdjusterFrom(sequence, fibSequence, lo, hi) ==
    IF lo > hi THEN sequence
    ELSE IF lo = hi THEN AdjusterStep(sequence, fibSequence[lo])
    ELSE The({The({AdjusterFrom(first, fibSequence, mid + 1, hi) :
                      first \in {AdjusterFrom(sequence, fibSequence, lo, mid)}}) :
                 mid \in {(lo + hi) \div 2}})

generateTotalAdjusterSequence(initialTotalAdjuster, days) ==
    The({The({[sequence EXCEPT ![days] = FromInt(1)] :
                 sequence \in {AdjusterFrom(<<initial>>, fibSequence, 2, days)}}) :
            initial \in {initialTotalAdjuster},
            fibSequence \in {ScaledFibonacci(generateFibonacciDecreasingSequence(days),
                                             initialTotalAdjuster, days)}})

\* the clamp of the PERIOD ADJUSTER to 383..424
ClampPeriodAdjuster(periodAdjuster) ==
    IF FLess(periodAdjuster, FromInt(383)) THEN FromInt(383)
    ELSE IF FLess(FromInt(424), periodAdjuster) THEN FromInt(424)
    ELSE periodAdjuster

calculatePeriodAdjuster(targetVolume, days) ==
    The({ClampPeriodAdjuster(periodAdjuster) :
            periodAdjuster \in
                {FAdd(FromInt(390),
                      FMul(FDiv(FDiv(FromInt(targetVolume), FromInt(days)), FromInt(1000)),
                           Lit(1, 2)))}})

\* as calculateInitialTotalAdjuster without its cases for 20 and 45 days
calculateInitialTotalAdjusterDefault(periodAdjuster, days) ==
    FAdd(periodAdjuster, FromInt(1))

calculateInitialTotalAdjuster(periodAdjuster, days) ==
    IF days = 20 THEN FromInt(385)
    ELSE IF days = 45
    THEN The({IF FLess(initial, FromInt(400)) THEN FromInt(400)
              ELSE IF FLess(FromInt(450), initial) THEN FromInt(450)
              ELSE initial : initial \in {FAdd(periodAdjuster, FromInt(10))}})
    ELSE FAdd(periodAdjuster, FromInt(1))

\* the loop of generateFibonacciPlan over the TOTAL ADJUSTER sequence
FibonacciLimits(targetVolume, days, totalAdjusterSequence) ==
    LET singularity == FromInt(1)
        totalAdjuster(i) ==
            The({IF ~FPositive(t) THEN FromInt(1) ELSE t :
                    t \in {totalAdjusterSequence[Min(i, Len(totalAdjusterSequence))]}})
        volumePerIP(i) == FMul(FDiv(FromInt(targetVolume), totalAdjuster(i)), singularity)
    IN  [i \in 1..days |-> WarmupDay(i, excelRound(volumePerIP(i)))]

generateFibonacciPlan(targetVolume, days) ==
    IF days <= 0 \/ targetVolume <= 0 THEN <<>>
    ELSE The({[plan EXCEPT ![days].Limit = targetVolume] :
                 plan \in {FibonacciLimits(targetVolume, days,
                               generateTotalAdjusterSequence(
                                   calculateInitialTotalAdjuster(
                                       calculatePeriodAdjuster(targetVolume, days), days),
                                   days))}})

\* as PlanDays with the loop stopping at the period
PlanDaysUpToPeriod(customPeriod) == 1..customPeriod

\* the days the loop of GenerateWarmupPlans appends, customPeriod clamped
PlanDays(customPeriod) == 1..maxDays

\* as PlansOf with the reference plan scaled by the median of the custom
\* period
PlansOfCustomMedian(customPeriod, medianCustom, median30, factor) ==
    LET v30(day) == IF day <= Len(multipliers30)
                    THEN excelRound(FMul(medianCustom, Entry(multipliers30, day)))
                    ELSE 0
        vLt(day) == excelRound(lessThan30(medianCustom, factor, day))
        vGt(day) == excelRound(greaterThan30(medianCustom, factor, day))
    IN  [plan30 |-> [day \in PlanDays(customPeriod) |-> WarmupDay(day, v30(day))],
         planLt30 |-> [day \in PlanDays(customPeriod) |-> WarmupDay(day, vLt(day))],
         planGt30 |-> [day \in PlanDays(customPeriod) |-> WarmupDay(day, vGt(day))]]

\* the three plans the loop builds from the tables, for the medians and the
\* factor of GenerateWarmupPlans
PlansOf(customPeriod, medianCustom, median30, factor) ==
    LET v30(day) == IF day <= Len(multipliers30)
                    THEN excelRound(FMul(median30, Entry(multipliers30, day)))
                    ELSE 0
        vLt(day) == excelRound(lessThan30(medianCustom, factor, day))
        vGt(day) == excelRound(greaterThan30(medianCustom, factor, day))
    IN  [plan30 |-> [day \in PlanDays(customPeriod) |-> WarmupDay(day, v30(day))],
         planLt30 |-> [day \in PlanDays(customPeriod) |-> WarmupDay(day, vLt(day))],
         planGt30 |-> [day \in PlanDays(customPeriod) |-> WarmupDay(day, vGt(day))]]

StaticPlans(targetVolume, customPeriod) ==
    LET tv == FromInt(targetVolume)
        cp == FromInt(customPeriod)
        tp == FromInt(30)
    IN  The({PlansOf(customPeriod, medianCustom, median30, factor) :
                medianCustom \in {FDiv(tv, cp)},
                median30 \in {FDiv(tv, tp)},
                factor \in {FDiv(tp, cp)}})

\* as ReplaceWithFibonacci with the copy stopping one entry early
ReplaceWithFibonacciOffByOne(plan, fibPlan, customPeriod) ==
    The({[i \in 1..Len(p) |->
             IF i - 1 < customPeriod - 1 /\ i - 1 < Len(fp) THEN fp[i] ELSE p[i]] :
            p \in {plan}, fp \in {fibPlan}})

\* as ReplaceWithFibonacci with the days after the period cleared
ReplaceWithFibonacciZeroTail(plan, fibPlan, customPeriod) ==
    The({[i \in 1..Len(p) |->
             IF i - 1 < customPeriod /\ i - 1 < Len(fp) THEN fp[i] ELSE WarmupDay(i, 0)] :
            p \in {plan}, fp \in {fibPlan}})

\* for i := 0; i < customPeriod && i < len(fibPlan); i++ { plan[i] = fibPlan[i] }
ReplaceWithFibonacci(plan, fibPlan, customPeriod) ==
    The({[i \in 1..Len(p) |->
             IF i - 1 < customPeriod /\ i - 1 < Len(fp) THEN fp[i] ELSE p[i]] :
            p \in {plan}, fp \in {fibPlan}})

\* ClampPeriod that raises a period of 0 or less to the longest plan.
ClampPeriodToMax(customPeriod) ==
    IF customPeriod <= 0 THEN maxDays
    ELSE IF customPeriod > maxDays THEN maxDays
    ELSE customPeriod

\* if customPeriod <= 0 { 30 }; if customPeriod > maxDays { maxDays }
ClampPeriod(customPeriod) ==
    IF customPeriod <= 0 THEN 30
    ELSE IF customPeriod > maxDays THEN maxDays
    ELSE customPeriod

\* as GenerateWarmupPlans before the Fibonacci calculator was added
GenerateWarmupPlansStatic(targetVolume, customPeriod) ==
    StaticPlans(targetVolume, ClampPeriod(customPeriod))

GenerateWarmupPlans(targetVolume, customPeriod) ==
    LET period == ClampPeriod(customPeriod)
        static == StaticPlans(targetVolume, period)
        fibPlan == generateFibonacciPlan(targetVolume, period)
    IN  IF period = 20
        THEN [static EXCEPT !.planLt30 = ReplaceWithFibonacci(@, fibPlan, period)]
        ELSE IF period = 45
        THEN [static EXCEPT !.planGt30 = ReplaceWithFibonacci(@, fibPlan, period)]
        ELSE static

-----------------------------------------------------------------------------
(* Calls of the warm-up plan generator.                                     *)

MaxPeriod == 61

\* The limits of a plan reach targetVolume * 675000 / period^2 (day 40 of
\* the accelerated plan); the volumes drawn keep them within TLC's integers.
MaxVolumeRatio == 3000

Volumes == {0 - 7, 0, 1, 69, 1000, 50000}

Periods == {0 - 1} \cup (0..MaxPeriod)

FibonacciPeriods == {20, 45}

WarmupArgs ==
    {a \in [targetVolume : Volumes, customPeriod : Periods] :
        a.targetVolume <= MaxVolumeRatio * ClampPeriod(a.customPeriod) * ClampPeriod(a.customPeriod)}

FibonacciArgs == [targetVolume : Volumes, days : FibonacciPeriods]

GenerateWarmupPlansCall ==
    /\ pc = "call" /\ op = "GenerateWarmupPlans"
    /\ ret' = GenerateWarmupPlans(args.targetVolume, args.customPeriod)
    /\ pc' = "return"
    /\ UNCHANGED <<op, args>>

generateFibonacciPlanCall ==
    /\ pc = "call" /\ op = "generateFibonacciPlan"
    /\ ret' = generateFibonacciPlan(args.targetVolume, args.days)
    /\ pc' = "return"
    /\ UNCHANGED <<op, args>>

InitWarmup ==
    /\ pc = "call" /\ ret = NoResult
    /\ \/ op = "GenerateWarmupPlans" /\ args \in WarmupArgs
       \/ op = "generateFibonacciPlan" /\ args \in FibonacciArgs

NextWarmup == GenerateWarmupPlansCall \/ generateFibonacciPlanCall

SpecWarmup == InitWarmup /\ [][NextWarmup]_vars

-----------------------------------------------------------------------------
(* Properties of the warm-up plan generator.                                *)

ReturnedPlans == pc = "return" /\ op = "GenerateWarmupPlans"

ReturnedFibonacci == pc = "return" /\ op = "generateFibonacciPlan"

\* The plan that applies to period P: accelerated, reference or extended.
ApplicablePlan(plans, P) ==
    IF P < 30 THEN plans.planLt30
    ELSE IF P = 30 THEN plans.plan30
    ELSE plans.planGt30

\* The plan the exact-target algorithm fills for P = 20 or P = 45.
ExactTargetPlan(plans, P) == IF P = 20 THEN plans.planLt30 ELSE plans.planGt30

AllPlans(plans) == {plans.plan30, plans.planLt30, plans.planGt30}

ContiguousDays(plan) == \A i \in 1..Len(plan) : plan[i].Day = i

\* C3 as stated: for every V > 0 and P in 1..60 the limit on day P of the
\* plan that applies to P equals V.
C3_Original ==
    (ReturnedPlans /\ args.targetVolume > 0 /\ args.customPeriod \in 1..60)
        => ApplicablePlan(ret, args.customPeriod)[args.customPeriod].Limit = args.targetVolume

\* C3, amended: for every V > 0 and P in {20, 30, 45, 60} the limit on day P
\* of the plan that applies to P equals V (the table-driven formula of the
\* other periods does not reach V on day P).
C3_LastDayReachesTarget ==
    (ReturnedPlans /\ args.targetVolume > 0 /\ args.customPeriod \in {20, 30, 45, 60})
        => ApplicablePlan(ret, args.customPeriod)[args.customPeriod].Limit = args.targetVolume

C3_Witness ==
    /\ ReturnedPlans /\ args.targetVolume = 1000 /\ args.customPeriod = 60
    /\ ret.planGt30[60].Limit = 1000

\* C4: for every V > 0, with P = 20 the accelerated plan's limit on day 20 is
\* V and with P = 45 the extended plan's limit on day 45 is V; for V = 50000
\* and P = 20, day 20 is 50000 and day 1 is within 130 +- 1.
C4_FibonacciLastDay ==
    (ReturnedPlans /\ args.targetVolume > 0) =>
        /\ args.customPeriod = 20 => ret.planLt30[20].Limit = args.targetVolume
        /\ args.customPeriod = 45 => ret.planGt30[45].Limit = args.targetVolume
        /\ (args.targetVolume = 50000 /\ args.customPeriod = 20) =>
                /\ ret.planLt30[20].Limit = 50000
                /\ ret.planLt30[1].Limit \in 129..131

C4_Witness ==
    /\ ReturnedPlans /\ args.targetVolume = 50000 /\ args.customPeriod = 20
    /\ ret.planLt30[1].Limit = 130
    /\ ret.planLt30[19].Limit = 16667
    /\ ret.planLt30[20].Limit = 50000

\* C5 as stated: for V > 0 and P in {20, 45} the final element of the
\* returned exact-target plan has limit V.
C5_Original ==
    (ReturnedPlans /\ args.targetVolume > 0 /\ args.customPeriod \in {20, 45}) =>
        LET plan == ExactTargetPlan(ret, args.customPeriod)
        IN  plan[Len(plan)].Limit = args.targetVolume

\* C5, amended: for V > 0 and P in {20, 45} the plan generateFibonacciPlan
\* builds has P entries and its final element, day P, has limit V; in the
\* exact-target plan GenerateWarmupPlans returns, which goes on to day 60,
\* that element is the one of day P.
C5_FibonacciFinalElement ==
    /\ (ReturnedFibonacci /\ args.targetVolume > 0) =>
            /\ Len(ret) = args.days
            /\ ret[Len(ret)] = [Day |-> args.days, Limit |-> args.targetVolume]
    /\ (ReturnedPlans /\ args.targetVolume > 0 /\ args.customPeriod \in {20, 45}) =>
            LET plan == ExactTargetPlan(ret, args.customPeriod)
            IN  /\ Len(plan) = 60
                /\ plan[args.customPeriod] =
                       [Day |-> args.customPeriod, Limit |-> args.targetVolume]

C5_Witness ==
    /\ ReturnedPlans /\ args.targetVolume = 50000 /\ args.customPeriod = 45
    /\ Len(ret.planGt30) = 60
    /\ ret.planGt30[45].Limit = 50000
    /\ ret.planGt30[60].Limit # 50000

\* C6 as stated: for V > 0 and every P each returned plan has min(P', 60)
\* entries, P' the effective period (30 when P <= 0), with day numbers
\* 1, 2, ... contiguous.
C6_Original ==
    (ReturnedPlans /\ args.targetVolume > 0) =>
        LET effective == IF args.customPeriod <= 0 THEN 30 ELSE args.customPeriod
        IN  \A plan \in AllPlans(ret) :
                /\ Len(plan) = Min(effective, 60)
                /\ ContiguousDays(plan)

\* C6, amended: for V > 0 and every P each returned plan has exactly 60
\* entries, with day numbers 1, 2, ..., 60 contiguous.
C6_SixtyEntries ==
    (ReturnedPlans /\ args.targetVolume > 0) =>
        \A plan \in AllPlans(ret) : Len(plan) = 60 /\ ContiguousDays(plan)

C6_Witness ==
    /\ ReturnedPlans /\ args.targetVolume > 0 /\ args.customPeriod = 0 - 1
    /\ \A plan \in AllPlans(ret) : Len(plan) = 60 /\ plan[60].Day = 60


\* C13: GenerateWarmupPlans returns three plans for any integers V and P,
\* V <= 0, P <= 0 and P > 60 included, each of them a list of days numbered
\* from 1 with a limit >= 0; a period P <= 0 gives exactly the result of
\* P = 30 and a period P > 60 exactly the result of P = 60.
C13_NeverFails ==
    ReturnedPlans =>
        /\ DOMAIN ret = {"plan30", "planLt30", "planGt30"}
        /\ \A plan \in AllPlans(ret) :
               /\ Len(plan) = maxDays
               /\ ContiguousDays(plan)
               /\ \A i \in 1..Len(plan) : plan[i].Limit >= 0
        /\ args.customPeriod <= 0 => ret = GenerateWarmupPlans(args.targetVolume, 30)
        /\ args.customPeriod > 60 => ret = GenerateWarmupPlans(args.targetVolume, 60)
        /\ args.targetVolume <= 0 =>
               \A plan \in AllPlans(ret) : \A i \in 1..Len(plan) : plan[i].Limit = 0

\* Plans were returned for a negative volume and a negative period.
C13_Witness ==
    /\ ReturnedPlans
    /\ args.targetVolume < 0 /\ args.customPeriod < 0
    /\ Len(ret.planLt30) = maxDays

\* round_half_up(V * n / (30 * d)) in exact arithmetic.
RoundHalfUp30(V, n, d) == (2 * V * n + 30 * d) \div (60 * d)

\* C21 as stated: the reference plan does not depend on P; its limit on day d
\* is round_half_up(V/30 * table30[d]) on each of 41 table days, the table
\* starting at 1/7 on day 1 and reaching 150 on day 41, and 0 on the days
\* after day 41.
C21_Original ==
    (ReturnedPlans /\ args.targetVolume > 0) =>
        LET V == args.targetVolume
        IN  /\ \A d \in 1..Len(multipliers30) :
                   ret.plan30[d].Limit =
                       RoundHalfUp30(V, multipliers30[d][1], multipliers30[d][2])
            /\ ret.plan30[41].Limit = RoundHalfUp30(V, 150, 1)
            /\ \A d \in 42..maxDays : ret.plan30[d].Limit = 0

\* C21 amended: the reference plan does not depend on P; the multiplier table
\* has 40 entries, from 1/7 on day 1 to 150 on day 40; the limit on day
\* d <= 40 is V/30 * table30[d] rounded to the nearest integer, a half rounded
\* up unless the float64 product falls just below it; the limit is 0 on days
\* 41 to 60.
C21_ReferencePlan ==
    (ReturnedPlans /\ args.targetVolume > 0) =>
        LET V == args.targetVolume
        IN  /\ Len(multipliers30) = 40
            /\ multipliers30[1] = <<1, 7>> /\ multipliers30[40] = <<1500, 10>>
            /\ \A d \in 1..40 :
                   LET n == multipliers30[d][1]
                       q == multipliers30[d][2]
                       limit == ret.plan30[d].Limit
                   IN  /\ 60 * q * limit <= 2 * V * n + 30 * q
                       /\ 60 * q * limit >= 2 * V * n - 30 * q
                       /\ (2 * V * n + 30 * q) % (60 * q) # 0 =>
                              limit = RoundHalfUp30(V, n, q)
            /\ \A d \in 41..maxDays : ret.plan30[d].Limit = 0
            /\ V = 1000 =>
                   \A d \in 1..maxDays :
                       ret.plan30[d].Limit =
                           <<5, 6, 7, 8, 11, 17, 27, 28, 33, 40, 47, 60, 73, 80,
                             93, 107, 117, 133, 150, 167, 200, 233, 267, 300,
                             367, 433, 500, 667, 833, 1000, 1333, 1667, 2000,
                             2333, 2667, 3000, 3333, 3667, 4333, 5000,
                             0, 0, 0, 0, 0, 0, 0, 0, 0, 0,
                             0, 0, 0, 0, 0, 0, 0, 0, 0, 0>>[d]

\* Plans for V = 69 and a period of 10 days were returned: day 29 of the
\* reference plan is 57 (69/30 * 25 is 57.5), day 40 is 345 and day 41 is 0.
C21_Witness ==
    /\ ReturnedPlans
    /\ args.targetVolume = 69 /\ args.customPeriod = 10
    /\ ret.plan30[29].Limit = 57
    /\ ret.plan30[40].Limit = 345
    /\ ret.plan30[41].Limit = 0

\* C22 as stated: for every V > 0 and every period P the limits of the
\* extended plan on days 1 to 9 equal, day by day, those of the accelerated
\* plan.
C22_Original ==
    (ReturnedPlans /\ args.targetVolume > 0) =>
        \A d \in 1..9 : ret.planGt30[d].Limit = ret.planLt30[d].Limit

\* C22 amended: for every V > 0 and every period P other than 20 and 45 the
\* limits of the extended plan on days 1 to 9 equal, day by day, those of the
\* accelerated plan; for P = 20 and P = 45 one of the two plans holds the
\* exact-target limits on these days and the other the table limits.
C22_FirstNineDays ==
    (ReturnedPlans /\ args.targetVolume > 0) =>
        /\ args.customPeriod \notin {20, 45} =>
               \A d \in 1..9 : ret.planGt30[d].Limit = ret.planLt30[d].Limit
        /\ args.customPeriod \in {20, 45} =>
               LET static == StaticPlans(args.targetVolume, args.customPeriod)
                   fibPlan == generateFibonacciPlan(args.targetVolume, args.customPeriod)
                   kept == IF args.customPeriod = 20 THEN ret.planGt30 ELSE ret.planLt30
                   replaced == IF args.customPeriod = 20 THEN ret.planLt30 ELSE ret.planGt30
               IN  \A d \in 1..9 :
                       /\ kept[d].Limit = static.planLt30[d].Limit
                       /\ kept[d].Limit = static.planGt30[d].Limit
                       /\ replaced[d].Limit = fibPlan[d].Limit

\* Plans for V = 1000 and 10 days were returned: the first nine limits of the
\* two custom plans agree and are not 0.
C22_Witness ==
    /\ ReturnedPlans
    /\ args.targetVolume = 1000 /\ args.customPeriod = 10
    /\ \A d \in 1..9 :
           ret.planGt30[d].Limit = ret.planLt30[d].Limit /\ ret.planLt30[d].Limit > 0

\* The initial total adjuster T0 of a call of generateFibonacciPlan.
InitialAdjuster ==
    calculateInitialTotalAdjuster(
        calculatePeriodAdjuster(args.targetVolume, args.days), args.days)

\* The per-day decrement terms of the call, index 0 of the code at position 1.
DecrementTerms ==
    ScaledFibonacci(generateFibonacciDecreasingSequence(args.days),
                    InitialAdjuster, args.days)

\* The total-adjuster sequence of the call before its last value is set to 1.
RawAdjusters ==
    The({AdjusterFrom(<<t0>>, terms, 2, args.days) :
            t0 \in {InitialAdjuster}, terms \in {DecrementTerms}})

\* x lies in [lo, lo + 2^-30)
WithinRounding(x, lo) ==
    ~FLess(x, lo) /\ FLess(FSub(x, lo), Lit(1, 1073741824))

\* C23 as stated: for P in {20, 45} and V > 0 the decrement terms sum to
\* exactly T0 - 1, and subtracting them day by day from T0 gives a strictly
\* decreasing sequence whose value on day P is exactly 1 before the final
\* override.
C23_Original ==
    (ReturnedFibonacci /\ args.targetVolume > 0) =>
        /\ SumFrom(DecrementTerms, 2, args.days, FZero)
               = FSub(InitialAdjuster, FromInt(1))
        /\ \A i \in 1..(args.days - 1) : FLess(RawAdjusters[i + 1], RawAdjusters[i])
        /\ RawAdjusters[args.days] = FromInt(1)

\* C23 amended: for P = 20 the terms are not rescaled and sum to 383, which is
\* T0 - 2 for T0 = 385, so the value on day 20 is 2 before the override; for
\* P = 45 the rescaled terms sum to T0 - 1 up to float64 rounding and the
\* value on day 45 before the override is 1 up to that rounding; in both
\* cases the sequence is strictly decreasing, and it ends at exactly 1
\* through the final override.
C23_DecrementTerms ==
    (ReturnedFibonacci /\ args.targetVolume > 0) =>
        LET sum == SumFrom(DecrementTerms, 2, args.days, FZero)
            final == generateTotalAdjusterSequence(InitialAdjuster, args.days)
        IN  /\ args.days = 20 =>
                   /\ InitialAdjuster = FromInt(385)
                   /\ sum = FromInt(383)
                   /\ RawAdjusters[20] = FromInt(2)
            /\ args.days = 45 =>
                   /\ ~FLess(InitialAdjuster, FromInt(400))
                   /\ ~FLess(FromInt(450), InitialAdjuster)
                   /\ \/ WithinRounding(sum, FSub(InitialAdjuster, FromInt(1)))
                      \/ WithinRounding(FSub(InitialAdjuster, FromInt(1)), sum)
                   /\ WithinRounding(RawAdjusters[45], FromInt(1))
            /\ \A i \in 1..(args.days - 1) : FLess(RawAdjusters[i + 1], RawAdjusters[i])
            /\ \A i \in 1..(args.days - 1) : final[i] = RawAdjusters[i]
            /\ final[args.days] = FromInt(1)
            /\ FLess(final[args.days], final[args.days - 1])

\* A 45-day exact-target plan for V = 69 was returned whose day-45 adjuster
\* was not exactly 1 before the override.
C23_Witness ==
    /\ ReturnedFibonacci
    /\ args.targetVolume = 69 /\ args.days = 45
    /\ RawAdjusters[45] # FromInt(1)
    /\ ret[45].Limit = 69


-----------------------------------------------------------------------------
(* handlers.go: the parallel lookups of VetHandler.  The handler starts    *)
(* FetchMXToolboxBlacklist and FetchAdditionalAbuseFeeds (and a second     *)
(* abuse lookup for the parent of a subdomain) in an errgroup and blocks   *)
(* in g.Wait().  The context made with a timeout of 7 seconds is given to  *)
(* errgroup.WithContext, whose derived context is discarded; no lookup     *)
(* receives it, so nothing in the handler reads the deadline.  Here op is  *)
(* "VetHandlerLookups", pc holds the position of the handler and of each   *)
(* lookup, and ret the seconds elapsed and the variables the lookups       *)
(* write.                                                                  *)

\* handlers.go:179, the timeout of the context, in seconds.
LookupDeadline == 7

\* checks.go:306, the timeout of the HTTP client of MXToolbox, in seconds.
MXToolboxTimeout == 8

\* The seconds the model follows.  The abuse lookups make one DNS query per
\* list, one after the other, each with its own timeout of 3 seconds, and
\* have no timeout of their own as a whole.
MaxClock == 10

\* *MXBlacklistResult; ok is FALSE for the nil pointer.
MXBlacklistResult(ok, mxRep, lists) == [ok |-> ok, MxRep |-> mxRep, Lists |-> lists]

NilMXResult == MXBlacklistResult(FALSE, 0, <<>>)

convertMXToBlacklist(mx) ==
    [i \in 1..Len(mx.Lists) |-> [mx.Lists[i] EXCEPT !.Listed = TRUE]]

\* handlers.go 210-225: the entries of MXToolbox, then those of the abuse
\* feeds, then those of the parent domain with their Info overwritten.
MergeBlacklists(mxRes, abuse, parentAbuse, isSubdom, parentDomain) ==
    LET fromMX == IF mxRes.ok THEN convertMXToBlacklist(mxRes) ELSE <<>>
        fromParent ==
            IF isSubdom /\ Len(parentAbuse) > 0
            THEN [i \in 1..Len(parentAbuse) |->
                     [parentAbuse[i] EXCEPT !.Info = "Parent domain: " \o parentDomain]]
            ELSE <<>>
    IN  fromMX \o abuse \o fromParent

\* What the three lookups of one request answer when they answer: MXToolbox
\* fails, or reports a reputation with or without a listing; each abuse
\* lookup finds nothing or one list.
LookupArgs ==
    [isSubdom : Bools, parentDomain : {"example.com"},
     mx : {NilMXResult,
           MXBlacklistResult(TRUE, 95, <<>>),
           MXBlacklistResult(TRUE, 39, <<BlacklistEntry("bl.spamcop.net", TRUE)>>)},
     abuse : {<<>>, <<BlacklistEntry("zen.spamhaus.org", TRUE)>>},
     parentAbuse : {<<>>, <<BlacklistEntry("bl.spamcop.net", TRUE)>>}]

LookupsRunning == op = "VetHandlerLookups" /\ pc.handler = "Wait"

\* One second passes.  The HTTP client of MXToolbox gives up at its timeout.
Tick ==
    /\ LookupsRunning
    /\ ret.clock < MaxClock
    /\ pc.mx = "pending" => ret.clock < MXToolboxTimeout
    /\ ret' = [ret EXCEPT !.clock = ret.clock + 1]
    /\ UNCHANGED <<op, args, pc>>

\* handlers.go 185-191: mxRes is assigned only when the fetch succeeded.
FetchMXToolboxReturn ==
    /\ LookupsRunning
    /\ pc.mx = "pending"
    /\ ret' = [ret EXCEPT !.mxRes =
                  IF ret.clock < MXToolboxTimeout THEN args.mx ELSE NilMXResult]
    /\ pc' = [pc EXCEPT !.mx = "done"]
    /\ UNCHANGED <<op, args>>

\* handlers.go 194-197.
FetchAbuseReturn ==
    /\ LookupsRunning
    /\ pc.abuse = "pending"
    /\ ret' = [ret EXCEPT !.abuse = args.abuse]
    /\ pc' = [pc EXCEPT !.abuse = "done"]
    /\ UNCHANGED <<op, args>>

\* handlers.go 200-205: started only for a subdomain.
FetchParentAbuseReturn ==
    /\ LookupsRunning
    /\ pc.parentAbuse = "pending"
    /\ ret' = [ret EXCEPT !.parentAbuse = args.parentAbuse]
    /\ pc' = [pc EXCEPT !.parentAbuse = "done"]
    /\ UNCHANGED <<op, args>>

\* handlers.go 208-354: g.Wait() returns when every lookup that was started
\* has returned; the handler merges their results, analyses, gates and
\* scores.  The other signals of the request are those of a sound site.
WaitReturn ==
    /\ LookupsRunning
    /\ \A l \in {"mx", "abuse", "parentAbuse"} : pc[l] # "pending"
    /\ LET blacklistCombined == MergeBlacklists(ret.mxRes, ret.abuse, ret.parentAbuse,
                                    args.isSubdom, args.parentDomain)
           mxRep == IF ret.mxRes.ok THEN ret.mxRes.MxRep ELSE 0
       IN  \E resp \in VetHandler(blacklistCombined, mxRep, TRUE, TRUE, FALSE, "",
                           90, 60,
                           [HasValidMX |-> TRUE, HasSPF |-> TRUE, HasDMARC |-> TRUE,
                            SPFRecord |-> "", DMARCRecord |-> "v=DMARC1; p=reject"],
                           SSLSample, TRUE) :
               ret' = [ret EXCEPT !.response = resp]
    /\ pc' = [pc EXCEPT !.handler = "return"]
    /\ UNCHANGED <<op, args>>

\* The state after handlers.go 205: the lookups are started, nothing is
\* written yet.
InitLookups ==
    /\ op = "VetHandlerLookups"
    /\ args \in LookupArgs
    /\ pc = [handler |-> "Wait", mx |-> "pending", abuse |-> "pending",
             parentAbuse |-> IF args.isSubdom THEN "pending" ELSE "idle"]
    /\ ret = [clock |-> 0, mxRes |-> NilMXResult, abuse |-> <<>>,
              parentAbuse |-> <<>>, response |-> NoResult]

NextLookups ==
    \/ Tick
    \/ FetchMXToolboxReturn
    \/ FetchAbuseReturn
    \/ FetchParentAbuseReturn
    \/ WaitReturn

SpecLookups == InitLookups /\ [][NextLookups]_vars

\* C24: the parallel lookups run under a deadline of 7 seconds: once the
\* deadline has passed the handler has left g.Wait() and goes on with the
\* results of the lookups that completed, without waiting for a lookup that
\* is still pending.
C24_BoundedDeadline ==
    (LookupsRunning /\ \E l \in {"mx", "abuse", "parentAbuse"} : pc[l] = "pending") =>
        ret.clock <= LookupDeadline


-----------------------------------------------------------------------------
(* The chat session of package ai (its text is in src/SCORING_ANALYSIS.md  *)
(* from line 384 on).  processChat dispatches each user message on the     *)
(* stage of the session.  Here op is "processChat", pc is the Session      *)
(* (its Messages, which no handler reads, left out), args the message      *)
(* last processed, and ret the ChatResponse to it together with what the   *)
(* handler called.  A message is what extractDomain, extractDays and the   *)
(* word lists find in it; with it come the answers of isDomainValid, of    *)
(* the vetting API and of the warm-up API.                                 *)

\* CanProceedWithWarmup that blocks no domain.
CanProceedWithWarmupAlways(isRejected) == TRUE

\* prompts.go: only a rejected domain is blocked.  The handlers pass
\* session.Score where the function takes the rejection flag; the model
\* passes the flag of the vetting the score was read from.
CanProceedWithWarmup(isRejected) == ~isRejected

\* What callVettingAPI may answer: an error, a rejected domain, and allowed
\* domains of a good, a poor and a zero score.
NilVetting == [ok |-> FALSE, IsRejected |-> FALSE, Score |-> 0, Level |-> ""]

VettingSamples ==
    {NilVetting,
     [ok |-> TRUE, IsRejected |-> TRUE, Score |-> 0, Level |-> "rejected"],
     [ok |-> TRUE, IsRejected |-> FALSE, Score |-> 85, Level |-> "good"],
     [ok |-> TRUE, IsRejected |-> FALSE, Score |-> 0, Level |-> "high-risk"]}

ChatInputs ==
    [domain : {"", "a.example", "b.example"}, days : {0, 14},
     positive : Bools, negative : Bools, reset : Bools,
     valid : Bools, vetting : VettingSamples, warmupErr : Bools]

ChatResponse(stage, waitingFor, canProceed) ==
    [Stage |-> stage, WaitingFor |-> waitingFor, CanProceed |-> canProceed]

\* What a stage handler did: the session it leaves, its response, whether it
\* got an answer from the vetting API and whether it asked for a warm-up plan.
Handled(session, response, vetted, warmup) ==
    [session |-> session, response |-> response, vetted |-> vetted, warmup |-> warmup]

handleDomainInput(session, in) ==
    IF in.domain = "" \/ ~in.valid
    THEN Handled(session, ChatResponse("greeting", "domain", TRUE), FALSE, FALSE)
    ELSE LET s1 == [session EXCEPT !.Domain = in.domain]
             s2 == [s1 EXCEPT !.VettingData = in.vetting,
                              !.Score = in.vetting.Score,
                              !.ScoreLabel = in.vetting.Level]
             canProceed == CanProceedWithWarmup(in.vetting.IsRejected)
         IN  IF ~in.vetting.ok
             THEN Handled(s1, ChatResponse("greeting", "domain", TRUE), FALSE, FALSE)
             ELSE IF in.days > 0 /\ canProceed
             THEN Handled([s2 EXCEPT !.WarmupDays = in.days, !.Stage = "plan_generated"],
                      ChatResponse("plan_generated", "freetext", TRUE), TRUE, TRUE)
             ELSE LET stage == IF canProceed THEN "domain_analyzed" ELSE "plan_generated"
                  IN  Handled([s2 EXCEPT !.Stage = stage],
                          ChatResponse(stage,
                              IF canProceed THEN "confirmation" ELSE "freetext",
                              canProceed),
                          TRUE, FALSE)

handleWarmupDays(session, in) ==
    IF in.days <= 0 \/ in.days > 90
    THEN Handled(session, ChatResponse("warmup_days", "days", TRUE), FALSE, FALSE)
    ELSE Handled([session EXCEPT !.WarmupDays = in.days, !.Stage = "plan_generated"],
             ChatResponse("plan_generated", "freetext", TRUE), FALSE, TRUE)

handleWarmupConfirmation(session, in) ==
    IF in.negative
    THEN Handled([session EXCEPT !.Stage = "plan_generated"],
             ChatResponse("plan_generated", "freetext", TRUE), FALSE, FALSE)
    ELSE IF in.positive \/ in.days > 0
    THEN IF in.days > 0
         THEN handleWarmupDays(session, in)
         ELSE Handled([session EXCEPT !.Stage = "warmup_days"],
                  ChatResponse("warmup_days", "days", TRUE), FALSE, FALSE)
    ELSE Handled(session, ChatResponse(session.Stage, "confirmation", TRUE), FALSE, FALSE)

NewSession ==
    [Stage |-> "greeting", Domain |-> "", VettingData |-> NilVetting,
     Score |-> 0, ScoreLabel |-> "", WarmupDays |-> 0]

handleFollowup(session, in) ==
    IF in.domain # "" /\ in.domain # session.Domain
    THEN handleDomainInput(NewSession, in)
    ELSE IF in.reset
    THEN Handled([session EXCEPT !.Stage = "greeting"],
             ChatResponse("greeting", "domain", TRUE), FALSE, FALSE)
    ELSE Handled(session, ChatResponse(session.Stage, "freetext", TRUE), FALSE, FALSE)

\* processChat: the session and the response after the handler h; ret also
\* keeps the last answer of the vetting API and the domain it was about.
processChat(h) ==
    /\ pc' = h.session
    /\ ret' = [response |-> h.response,
               vetted |-> h.vetted,
               warmup |-> h.warmup,
               lastVetting |-> IF h.vetted
                               THEN [domain |-> h.session.Domain,
                                     allowed |-> ~h.session.VettingData.IsRejected]
                               ELSE ret.lastVetting]
    /\ UNCHANGED op

ProcessGreeting ==
    /\ op = "processChat" /\ pc.Stage = "greeting"
    /\ \E in \in ChatInputs : args' = in /\ processChat(handleDomainInput(pc, in))

ProcessDomainAnalyzed ==
    /\ op = "processChat" /\ pc.Stage = "domain_analyzed"
    /\ \E in \in ChatInputs : args' = in /\ processChat(handleWarmupConfirmation(pc, in))

ProcessWarmupDays ==
    /\ op = "processChat" /\ pc.Stage = "warmup_days"
    /\ \E in \in ChatInputs : args' = in /\ processChat(handleWarmupDays(pc, in))

ProcessPlanGenerated ==
    /\ op = "processChat" /\ pc.Stage = "plan_generated"
    /\ \E in \in ChatInputs : args' = in /\ processChat(handleFollowup(pc, in))

\* The session StartChatHandler creates, and its greeting.
InitChat ==
    /\ op = "processChat"
    /\ args = NoResult
    /\ pc = NewSession
    /\ ret = [response |-> ChatResponse("greeting", "domain", TRUE),
              vetted |-> FALSE, warmup |-> FALSE,
              lastVetting |-> [domain |-> "", allowed |-> FALSE]]

NextChat ==
    \/ ProcessGreeting
    \/ ProcessDomainAnalyzed
    \/ ProcessWarmupDays
    \/ ProcessPlanGenerated

SpecChat == InitChat /\ [][NextChat]_vars

-----------------------------------------------------------------------------
(* Properties of the chat session.                                         *)

\* The stages from which a warm-up plan can be requested.
WarmupStages == {"domain_analyzed", "warmup_days"}

\* The part of C25 that does not depend on which domain is vetted next: a
\* warm-up plan is asked for, and a stage in WarmupStages is held, only when
\* the last vetting was of the session's domain and allowed it; a vetting
\* that does not allow leaves the session in plan_generated; and such a
\* stage is entered from another stage only by a vetting that allows.
GatedByVetting ==
    /\ (ret.warmup \/ pc.Stage \in WarmupStages) =>
           /\ ret.lastVetting.allowed
           /\ ret.lastVetting.domain = pc.Domain
           /\ pc.VettingData.ok /\ ~pc.VettingData.IsRejected
    /\ (ret.vetted /\ ~ret.lastVetting.allowed) => pc.Stage = "plan_generated"

EntersWarmupStage == pc.Stage \notin WarmupStages /\ pc'.Stage \in WarmupStages

\* C25 as stated: after a vetting that did not allow, a stage in
\* WarmupStages is reached only when a new domain, another one than the
\* domain that was refused, has been vetted and allowed.
C25_Original ==
    [][/\ GatedByVetting'
       /\ (EntersWarmupStage /\ ~ret.lastVetting.allowed /\ ret.lastVetting.domain # "") =>
              /\ ret'.vetted /\ ret'.lastVetting.allowed
              /\ ret'.lastVetting.domain # ret.lastVetting.domain]_vars

\* C25, amended: after a vetting that did not allow, a stage in WarmupStages
\* is reached only when a domain has been vetted again and allowed: another
\* domain, or the same domain entered again after a reset keyword.
C25_GatedByVetting ==
    [][/\ GatedByVetting'
       /\ (EntersWarmupStage /\ ~ret.lastVetting.allowed) =>
              /\ ret'.vetted /\ ret'.lastVetting.allowed
              /\ pc.Stage = "greeting" \/ ret'.lastVetting.domain # pc.Domain]_vars

\* A vetting refused the domain: the session is at plan_generated and the
\* response says that the warm-up cannot proceed.
C25_Witness ==
    /\ op = "processChat"
    /\ ret.vetted /\ ~ret.lastVetting.allowed
    /\ pc.VettingData.IsRejected
    /\ pc.Stage = "plan_generated"
    /\ ~ret.response.CanProceed /\ ~ret.warmup


\* Some limit on days 1 to P of the plan exceeds the target volume V.
ExceedsTarget(plan, P, V) == \E d \in 1..P : plan[d].Limit > V

\* C26 as stated: for every V > 0 and every P in 1..60, no limit on days 1 to
\* P of the plan that applies to P exceeds V.
C26_Original ==
    (ReturnedPlans /\ args.targetVolume > 0 /\ args.customPeriod \in 1..60)
        => ~ExceedsTarget(ApplicablePlan(ret, args.customPeriod), args.customPeriod,
                args.targetVolume)

\* C26, amended: for every V > 0 and every P in 3..14, P = 20 and P in
\* 30..60, no limit on days 1 to P of the plan that applies to P exceeds V;
\* for P = 1, P = 19 and P in 21..29 some limit on those days exceeds V.
C26_NeverAboveTarget ==
    (ReturnedPlans /\ args.targetVolume > 0) =>
        /\ args.customPeriod \in (3..14) \cup {20} \cup (30..60) =>
               ~ExceedsTarget(ApplicablePlan(ret, args.customPeriod), args.customPeriod,
                    args.targetVolume)
        /\ args.customPeriod \in {1, 19} \cup (21..29) =>
               ExceedsTarget(ApplicablePlan(ret, args.customPeriod), args.customPeriod,
                   args.targetVolume)

\* A 14-day plan for V = 1000 was generated: it rises to 882 on day 14.
C26_Witness ==
    /\ ReturnedPlans /\ args.targetVolume = 1000 /\ args.customPeriod = 14
    /\ ret.planLt30[13].Limit = 741
    /\ ret.planLt30[14].Limit = 882


\* The limits on days 1 to P of the plan do not decrease from a day to the next.
NonDecreasing(plan, P) == \A d \in 1..(P - 1) : plan[d].Limit <= plan[d + 1].Limit

\* C27: for every V > 0 and every P in 1..60, the limits on days 1 to P of
\* the plan that applies to P, the exact-target plans of P = 20 and P = 45
\* included, are non-decreasing from one day to the next; so are the limits
\* of the plan generateFibonacciPlan builds.
C27_NonDecreasing ==
    /\ (ReturnedPlans /\ args.targetVolume > 0 /\ args.customPeriod \in 1..60)
           => NonDecreasing(ApplicablePlan(ret, args.customPeriod), args.customPeriod)
    /\ (ReturnedFibonacci /\ args.targetVolume > 0)
           => NonDecreasing(ret, args.days)

\* The 45-day exact-target plan for V = 1000 was generated: it rises from 2
\* on day 1 to 1000 on day 45.
C27_Witness ==
    /\ ReturnedPlans /\ args.targetVolume = 1000 /\ args.customPeriod = 45
    /\ ret.planGt30[1].Limit < ret.planGt30[44].Limit
    /\ ret.planGt30[44].Limit < ret.planGt30[45].Limit
    /\ ret.planGt30[45].Limit = 1000


\* C28: the exact-target replacement changes nothing else: for every V > 0,
\* GenerateWarmupPlans returns the three plans of the table-driven generator
\* for every P other than 20 and 45; for P = 20 it differs from them only on
\* days 1 to 20 of the accelerated plan and for P = 45 only on days 1 to 45
\* of the extended plan: the later days of that plan, the other custom plan
\* and the reference plan are those of the tables.
C28_ExactTargetFrame ==
    (ReturnedPlans /\ args.targetVolume > 0) =>
        \A P \in {ClampPeriod(args.customPeriod)} :
            \A table \in {StaticPlans(args.targetVolume, P)} :
                /\ ret.plan30 = table.plan30
                /\ P # 20 => ret.planLt30 = table.planLt30
                /\ P # 45 => ret.planGt30 = table.planGt30
                /\ P = 20 =>
                       /\ Len(ret.planLt30) = Len(table.planLt30)
                       /\ \A d \in 21..maxDays : ret.planLt30[d] = table.planLt30[d]
                /\ P = 45 =>
                       /\ Len(ret.planGt30) = Len(table.planGt30)
                       /\ \A d \in 46..maxDays : ret.planGt30[d] = table.planGt30[d]

\* The 20-day plan for V = 1000 was generated: day 20 is the target and day
\* 21 is the value of the accelerated table.
C28_Witness ==
    /\ ReturnedPlans /\ args.targetVolume = 1000 /\ args.customPeriod = 20
    /\ ret.planLt30[19].Limit = 333
    /\ ret.planLt30[20].Limit = 1000
    /\ ret.planLt30[21].Limit = 2700


-----------------------------------------------------------------------------
(* The website signal of the gate.                                         *)

\* C29: in VetHandler the website-existence signal is true whenever HTTPS is
\* enabled, so the rejection reason for a non-existent website never occurs
\* without the reason for missing HTTPS, in the response and in the reason
\* of the summary, and a domain whose HTTPS probe succeeds is never rejected
\* for website non-existence.
C29_WebsiteFollowsHTTPS ==
    ReturnedVet =>
        /\ args.httpsOK => ret.Website.Exists
        /\ ret.Website.HTTPSOk = args.httpsOK
        /\ Contains(ret.RejectReason, "Website does not exist or is not accessible")
               => /\ Contains(ret.RejectReason, "HTTPS is not enabled on the domain")
                  /\ ~args.httpsOK
        /\ Contains(ret.Summary.Reason, "Website does not exist (CRITICAL)")
               => /\ Contains(ret.Summary.Reason, "HTTPS not enabled (CRITICAL)")
                  /\ ~args.httpsOK

\* The fetch of the site failed and the HTTPS probe succeeded: the site
\* counts as existing and the domain, with nothing else wrong, is not
\* rejected.
C29_Witness ==
    /\ ReturnedVet
    /\ ~args.siteExists /\ args.httpsOK
    /\ ret.Website.Exists
    /\ ~ret.IsRejected


-----------------------------------------------------------------------------
(* The amounts printed in the reason.                                      *)

\* C30: for every non-rejected evaluation, the amount printed in each label
\* of the reason (new domain, no MX record, no DMARC record, no CAPTCHA)
\* equals the amount recorded for that penalty in the breakdown and
\* subtracted from the score.
C30_LabelAmounts ==
    (ReturnedV2 /\ ~args.isRejected) =>
        LET b == ret.Breakdown
            label == [f \in {"DomainTooNew", "NoMXRecord", "NoDMARC", "NoCaptcha"} |->
                         CASE f = "DomainTooNew" -> "new domain"
                           [] f = "NoMXRecord" -> "no MX record"
                           [] f = "NoDMARC" -> "no DMARC record"
                           [] f = "NoCaptcha" -> "no CAPTCHA"]
        IN  \A f \in DOMAIN label :
                b[f] > 0 =>
                    Contains(ret.Reason, label[f] \o " (-" \o FormatInt(b[f]) \o ")")

=============================================================================
